---------------------------- MODULE Spec2Model ----------------------------
(***************************************************************************)
(* Mechanical analysis of overhead line routes (analisis/*.py).           *)
(*                                                                         *)
(* Numbers are fixed point integers:                                       *)
(*   lengths / coordinates   metres (input), centimetres (rounded tables)  *)
(*   angles                  centidegrees (the tables round to 2 decimals) *)
(*   forces                  1e-4 kN                                        *)
(*   loads per length        1e-6 kN/m                                      *)
(*   moments                 1e-4 kN.m                                      *)
(* Tables (pandas DataFrames) are sequences of records, one per row.       *)
(***************************************************************************)
EXTENDS Integers, Sequences, FiniteSets, TLC

VARIABLES
    df,       \* input table of ejecutar_todo: rows [Punto, X, Y, Poste, Espacio]
    cfg,      \* keyword arguments of ejecutar_todo
    pc,       \* position inside ejecutar_todo
    geo,      \* the results bundle (dict) being filled
    stages,   \* stage functions that returned, in call order
    err,      \* the exception that left ejecutar_todo, "" when none
    call,     \* pure-function harness: the call being evaluated
    retval    \* pure-function harness: its result

vars == <<df, cfg, pc, geo, stages, err, call, retval>>

None == "None"

(***************************************************************************)
(* Bounds of the model.                                                    *)
(***************************************************************************)
MaxPts == 3            \* longest route drawn as input
MaxRet == 3            \* largest "Retenidas" value drawn for decidir_soporte

(***************************************************************************)
(* Small helpers.                                                          *)
(***************************************************************************)
Abs(x) == IF x < 0 THEN -x ELSE x

Max(a, b) == IF a >= b THEN a ELSE b

RECURSIVE SqrtIter(_, _)
SqrtIter(n, x) ==
    LET y == (x + n \div x) \div 2
    IN  IF y >= x THEN x ELSE SqrtIter(n, y)

\* floor of the square root (float sqrt / ** 0.5, truncated to the unit)
ISqrt(n) == IF n <= 0 THEN 0 ELSE SqrtIter(n, n)

\* str(v).strip() on the cell values the model draws
StrStrip(s) == IF s = " SI " THEN "SI" ELSE s

\* str(v).strip().upper() on the cell values the model draws
StripUpper(s) ==
    CASE s = "si"   -> "SI"
      [] s = " SI " -> "SI"
      [] s = "s"    -> "S"
      [] s = "true" -> "TRUE"
      [] s = "no"   -> "NO"
      [] OTHER      -> s

(***************************************************************************)
(* geometria.py                                                            *)
(***************************************************************************)
\* displacement vectors between consecutive route points drawn by the model
Steps == { <<100, 0>>, <<100, 50>>, <<100, 100>>, <<0, 100>>, <<-100, 0>>, <<0, 0>> }

\* np.degrees(np.arctan2(dy, dx)) % 360, in 1e-4 degrees
Atan2Deg1e4(dx, dy) ==
    CASE dx = 0    /\ dy = 0    -> 0
      [] dx = 100  /\ dy = 0    -> 0
      [] dx = 100  /\ dy = 5    -> 28624
      [] dx = 100  /\ dy = 50   -> 265651
      [] dx = 100  /\ dy = 100  -> 450000
      [] dx = 0    /\ dy = 100  -> 900000
      [] dx = -100 /\ dy = 0    -> 1800000
      [] dx = -100 /\ dy = -5   -> 1828624
      [] dx = -100 /\ dy = -50  -> 2065651
      [] dx = -100 /\ dy = -100 -> 2250000
      [] dx = 0    /\ dy = -100 -> 2700000

\* np.hypot(dx, dy) rounded to 2 decimals, in cm
HypotCm(dx, dy) ==
    CASE dx = 0       /\ dy = 0        -> 0
      [] Abs(dx) = 100 /\ dy = 0       -> 10000
      [] dx = 0       /\ Abs(dy) = 100 -> 10000
      [] Abs(dx) = 100 /\ Abs(dy) = 5   -> 10012
      [] Abs(dx) = 100 /\ Abs(dy) = 50  -> 11180
      [] Abs(dx) = 100 /\ Abs(dy) = 100 -> 14142

\* round(x, 2) of an angle held in 1e-4 degrees, in centidegrees
Round2(a1e4) == (a1e4 + 50) \div 100

dist_utm(p1, p2) == HypotCm(p2[1] - p1[1], p2[2] - p1[2])

azimut_deg(p1, p2) == Atan2Deg1e4(p2[1] - p1[1], p2[2] - p1[2])

\* mutant of deflexion_deg: a difference above 180 degrees is not reduced
deflexion_sin_reducir(p1, p2, p3) ==
    Abs(azimut_deg(p2, p3) - azimut_deg(p2, p1))

deflexion_deg(p1, p2, p3) ==
    LET az_in  == azimut_deg(p2, p1)
        az_out == azimut_deg(p2, p3)
        diff   == Abs(az_out - az_in)
    IN  IF diff > 1800000 THEN 3600000 - diff ELSE diff

\* mutant of clasificar_por_angulo: thresholds inclusive (>= instead of >)
clasificar_inclusive(ang) ==
    IF ang >= 9000 THEN <<"Giro", 2>>
    ELSE IF ang >= 6000 THEN <<"Giro", 2>>
    ELSE IF ang >= 3000 THEN <<"Doble remate", 3>>
    ELSE IF ang >= 500 THEN <<"Angulo", 1>>
    ELSE <<"Paso", 0>>

\* mutant of clasificar_por_angulo: the > 60 bucket asks for 4 guys
clasificar_giro4(ang) ==
    IF ang > 9000 THEN <<"Giro", 4>>
    ELSE IF ang > 6000 THEN <<"Giro", 4>>
    ELSE IF ang > 3000 THEN <<"Doble remate", 3>>
    ELSE IF ang > 500 THEN <<"Angulo", 1>>
    ELSE <<"Paso", 0>>

\* ang in centidegrees
clasificar_por_angulo(ang) ==
    IF ang > 9000 THEN <<"Giro", 2>>
    ELSE IF ang > 6000 THEN <<"Giro", 2>>
    ELSE IF ang > 3000 THEN <<"Doble remate", 3>>
    ELSE IF ang > 500 THEN <<"Angulo", 1>>
    ELSE <<"Paso", 0>>

\* a label is a sequence of characters; Arrow stands for the character U+2192
\* the i-th label "P<i>"
Etiqueta(i) == <<"P", CASE i = 1 -> "1" [] i = 2 -> "2" [] i = 3 -> "3" [] i = 4 -> "4"
                         [] OTHER -> "9">>

Arrow == "ARROW"

\* f"{a} -> {b}" with the arrow character: the name of the span from a to b
FormatTramo(a, b) == a \o <<" ", Arrow, " ">> \o b

\* rows [Tramo, dX, dY, Distancia (cm), Acumulado (cm), Azimut (centideg)]
RECURSIVE TramosRows(_, _, _, _)
TramosRows(puntos, etiquetas, i, acumulado) ==
    IF i > Len(puntos) - 1 THEN <<>>
    ELSE LET p1 == puntos[i]
             p2 == puntos[i + 1]
             d  == dist_utm(p1, p2)
         IN  << [ Tramo     |-> IF etiquetas # <<>>
                                THEN FormatTramo(etiquetas[i], etiquetas[i + 1])
                                ELSE FormatTramo(Etiqueta(i), Etiqueta(i + 1)),
                  dX        |-> p2[1] - p1[1],
                  dY        |-> p2[2] - p1[2],
                  Distancia |-> d,
                  Acumulado |-> acumulado + d,
                  Azimut    |-> Round2(azimut_deg(p1, p2)) ] >>
             \o TramosRows(puntos, etiquetas, i + 1, acumulado + d)

\* mutant of calcular_tramos: fewer than 2 points give an empty table
calcular_tramos_sin_minimo(puntos, etiquetas) ==
    [ok |-> TRUE, err |-> "", val |-> TramosRows(puntos, etiquetas, 1, 0)]

calcular_tramos(puntos, etiquetas) ==
    IF Len(puntos) < 2
    THEN [ok |-> FALSE, err |-> "ValueError: se requieren al menos 2 puntos", val |-> <<>>]
    ELSE [ok |-> TRUE, err |-> "", val |-> TramosRows(puntos, etiquetas, 1, 0)]

\* rows [Punto, Deflexion (centideg)] for the interior points
calcular_deflexiones(puntos, etiquetas) ==
    IF Len(puntos) < 3 THEN <<>>
    ELSE [ k \in 1..(Len(puntos) - 2) |->
             [ Punto     |-> etiquetas[k + 1],
               Deflexion |-> Round2(deflexion_deg(puntos[k], puntos[k + 1], puntos[k + 2])) ] ]


(***************************************************************************)
(* engine.py, phase 01: geometry                                           *)
(***************************************************************************)
\* engine._si_no: the flag as a boolean
engine_si_no(v) == StripUpper(v) \in {"SI", "S", "TRUE", "1"}

\* columns every input table read by leer_puntos_excel carries
BaseCols == {"Punto", "X", "Y", "Poste", "Espacio Retenida"}

engine_validar_entrada(d, cols) ==
    IF d = <<>> THEN "ValueError: df de entrada vacio"
    ELSE IF ~(BaseCols \subseteq cols) THEN "ValueError: falta columna"
    ELSE ""

\* round(d, 1) of an angle in centidegrees
Round1(c) == ((c + 5) \div 10) * 10

\* "-" in the column "Deflexion" of the summary
NoDeflexion == -1

\* rows [Punto, Deflexion, Estructura, Retenidas]; the classification reads
\* the unrounded |180 - raw|
calcular_deflexion_real(df_def) ==
    [ k \in 1..Len(df_def) |->
        LET d   == Abs(18000 - df_def[k].Deflexion)
            cls == clasificar_por_angulo(d)
        IN  [ Punto      |-> df_def[k].Punto,
              Deflexion  |-> Round1(d),
              Estructura |-> cls[1],
              Retenidas  |-> cls[2] ] ]

\* rows of df_def whose label is p (mapa.loc[p])
MapaLoc(df_def, p) == { k \in 1..Len(df_def) : df_def[k].Punto = p }

\* mutant of armar_resumen: the rows start as Paso without guys, so the route
\* ends keep no Remate
armar_resumen_sin_remate(d, df_def) ==
    [ i \in 1..Len(d) |->
        LET hits == MapaLoc(df_def, d[i].Punto)
        IN  IF df_def # <<>> /\ i > 1 /\ i < Len(d) /\ hits # {}
            THEN LET k == CHOOSE k \in hits : TRUE
                 IN  [ Punto |-> d[i].Punto, Poste |-> d[i].Poste, Espacio |-> d[i].Espacio,
                       Deflexion  |-> df_def[k].Deflexion,
                       Estructura |-> df_def[k].Estructura,
                       Retenidas  |-> df_def[k].Retenidas ]
            ELSE [ Punto |-> d[i].Punto, Poste |-> d[i].Poste, Espacio |-> d[i].Espacio,
                   Deflexion |-> NoDeflexion, Estructura |-> "Paso", Retenidas |-> 0 ] ]

\* every row starts as a Remate with 1 guy; rows 2..n-1 (range(1, len - 1))
\* take the row of df_def that carries their label
armar_resumen(d, df_def) ==
    [ i \in 1..Len(d) |->
        LET hits == MapaLoc(df_def, d[i].Punto)
        IN  IF df_def # <<>> /\ i > 1 /\ i < Len(d) /\ hits # {}
            THEN LET k == CHOOSE k \in hits : TRUE
                 IN  [ Punto |-> d[i].Punto, Poste |-> d[i].Poste, Espacio |-> d[i].Espacio,
                       Deflexion  |-> df_def[k].Deflexion,
                       Estructura |-> df_def[k].Estructura,
                       Retenidas  |-> df_def[k].Retenidas ]
            ELSE [ Punto |-> d[i].Punto, Poste |-> d[i].Poste, Espacio |-> d[i].Espacio,
                   Deflexion |-> NoDeflexion, Estructura |-> "Remate", Retenidas |-> 1 ] ]

\* a label of an interior row that df_def carries more than once: mapa.loc[p, c]
\* is then a Series and the cell assignment / int() raises
ResumenAmbiguo(d, df_def) ==
    \E i \in 2..(Len(d) - 1) : Cardinality(MapaLoc(df_def, d[i].Punto)) > 1

Puntos(d) == [ i \in 1..Len(d) |-> <<d[i].X, d[i].Y>> ]

Etiquetas(d) == [ i \in 1..Len(d) |-> d[i].Punto ]

RECURSIVE SumDistancia(_, _)
SumDistancia(t, i) == IF i > Len(t) THEN 0 ELSE t[i].Distancia + SumDistancia(t, i + 1)

\* result: [ok, err, tramos, deflexiones, resumen, total_m]
ejecutar_fase_geometria(d, cols) ==
    LET bad == engine_validar_entrada(d, cols)
        tr  == calcular_tramos(Puntos(d), Etiquetas(d))
        def == calcular_deflexion_real(calcular_deflexiones(Puntos(d), Etiquetas(d)))
        fail(e) == [ok |-> FALSE, err |-> e, tramos |-> <<>>, deflexiones |-> <<>>,
                    resumen |-> <<>>, total_m |-> 0]
    IN  IF bad # "" THEN fail(bad)
        ELSE IF ~tr.ok THEN fail(tr.err)
        ELSE IF ResumenAmbiguo(d, def) THEN fail("ValueError: etiqueta repetida en deflexiones")
        ELSE [ok |-> TRUE, err |-> "", tramos |-> tr.val, deflexiones |-> def,
              resumen |-> armar_resumen(d, def), total_m |-> SumDistancia(tr.val, 1)]


(***************************************************************************)
(* catalogos.py, unidades.py, mecanica.py, viento.py                       *)
(***************************************************************************)
\* peso in 0.1 g/m, TR in kgf, diametro in 1e-5 m
CONDUCTORES_ACSR ==
    [ c \in {"2 ACSR", "1/0 ACSR", "2/0 ACSR", "3/0 ACSR", "4/0 ACSR",
             "266.8 MCM", "336.4 MCM", "477 MCM", "795 MCM"} |->
        CASE c = "2 ACSR"    -> [peso |-> 1357,  TR_kgf |-> 1292,  diametro |-> 801]
          [] c = "1/0 ACSR"  -> [peso |-> 2162,  TR_kgf |-> 1986,  diametro |-> 1011]
          [] c = "2/0 ACSR"  -> [peso |-> 2720,  TR_kgf |-> 2398,  diametro |-> 1134]
          [] c = "3/0 ACSR"  -> [peso |-> 3443,  TR_kgf |-> 2996,  diametro |-> 1275]
          [] c = "4/0 ACSR"  -> [peso |-> 4331,  TR_kgf |-> 3776,  diametro |-> 1431]
          [] c = "266.8 MCM" -> [peso |-> 5111,  TR_kgf |-> 4330,  diametro |-> 1607]
          [] c = "336.4 MCM" -> [peso |-> 6899,  TR_kgf |-> 6423,  diametro |-> 1829]
          [] c = "477 MCM"   -> [peso |-> 9758,  TR_kgf |-> 8825,  diametro |-> 2177]
          [] c = "795 MCM"   -> [peso |-> 16260, TR_kgf |-> 14283, diametro |-> 2811] ]

RETENIDAS_RECOMENDADAS ==
    [ c \in DOMAIN CONDUCTORES_ACSR |->
        IF c \in {"2 ACSR", "1/0 ACSR", "2/0 ACSR"} THEN "1/4 EHS"
        ELSE IF c \in {"3/0 ACSR", "4/0 ACSR", "266.8 MCM"} THEN "5/16 EHS"
        ELSE "3/8 EHS" ]

\* ultimate strength in lbf
CAP_RETENIDA_ULT_LBF ==
    [ k \in {"1/4 EHS", "5/16 EHS", "3/8 EHS"} |->
        CASE k = "1/4 EHS" -> 7000 [] k = "5/16 EHS" -> 12000 [] k = "3/8 EHS" -> 17000 ]

\* kgf -> 1e-4 kN (kgf * 9.81 / 1000)
kgf_to_kN(kgf) == (kgf * 981) \div 10

\* lbf -> 1e-4 kN (lbf / 224.809)
lbf_to_kN(lbf) == (lbf * 100000) \div 2248

\* conductor weight per length, 1e-6 kN/m: (kg/m) * 9.81 / 1000
peso_lineal_kN_m(calibre) == (CONDUCTORES_ACSR[calibre].peso * 981) \div 1000

\* guy cable recommended for a conductor gauge
retenida_recomendada(calibre) ==
    IF calibre \in DOMAIN RETENIDAS_RECOMENDADAS THEN RETENIDAS_RECOMENDADAS[calibre] ELSE "N/D"

\* admissible guy capacity, 1e-4 kN: ultimate strength / safety factor (FS in tenths)
capacidad_retenida_admisible_kN(cable_ret, FS10) ==
    (lbf_to_kN(CAP_RETENIDA_ULT_LBF[cable_ret]) * 10) \div FS10

\* 0.5 * rho * Cd * D * v^2 / 1000 in 1e-6 kN/m; rho in 1e-3 kg/m3, Cd in
\* tenths, D in 1e-5 m, v in m/s
\* mutant of viento_kN_m: the speed is read neither by the guard nor by the
\* pressure term
viento_sin_velocidad(velocidad_ms, diametro, Cd10, rho1000) ==
    IF diametro <= 0 THEN 0
    ELSE ((rho1000 * Cd10 * diametro) \div 200) \div 10000

viento_kN_m(velocidad_ms, diametro, Cd10, rho1000) ==
    IF velocidad_ms <= 0 \/ diametro <= 0 THEN 0
    ELSE (((rho1000 * Cd10 * diametro) \div 200) * velocidad_ms * velocidad_ms) \div 10000

\* |sin| of an angle in centidegrees, in 1e-4
SinAbs1e4(theta) ==
    LET t == Abs(theta) % 18000
    IN  CASE t = 0    -> 0
          [] t = 286  -> 499
          [] t = 1843 -> 3161
          [] t = 2657 -> 4473
          [] t = 4214 -> 6709
          [] t = 4500 -> 7071
          [] t = 6343 -> 8944
          [] t = 8714 -> 9988
          [] t = 9000 -> 10000
          [] t = 13500 -> 7071

\* w * |sin(az_viento - az_tramo)|
proyectar_viento(w_kN_m, azimut_tramo, azimut_viento) ==
    (w_kN_m * SinAbs1e4(azimut_viento - azimut_tramo)) \div 10000

(***************************************************************************)
(* cargas_tramo.py                                                         *)
(***************************************************************************)
\* rows of df_tramos extended with the loads; result [ok, err, val]
calcular_cargas_por_tramo(df_tramos, calibre, n_fases, v_viento_ms, azimut_viento, diametro, Cd10, rho1000) ==
    IF df_tramos = <<>> THEN [ok |-> TRUE, err |-> "", val |-> <<>>]
    ELSE IF calibre \notin DOMAIN CONDUCTORES_ACSR
    THEN [ok |-> FALSE, err |-> "KeyError: calibre", val |-> <<>>]
    ELSE IF v_viento_ms < 0
    THEN [ok |-> FALSE, err |-> "ValueError: v_viento_ms negativo", val |-> <<>>]
    ELSE
      LET w_peso   == peso_lineal_kN_m(calibre) * n_fases
          w_viento == viento_kN_m(v_viento_ms, diametro, Cd10, rho1000)
      IN  [ ok |-> TRUE, err |-> "",
            val |-> [ k \in 1..Len(df_tramos) |->
              LET w_eff == proyectar_viento(w_viento, df_tramos[k].Azimut, azimut_viento)
                  w_res == ISqrt(w_peso * w_peso + w_eff * w_eff)
              IN  [ Tramo        |-> df_tramos[k].Tramo,
                    Distancia    |-> df_tramos[k].Distancia,
                    Azimut       |-> df_tramos[k].Azimut,
                    w_peso       |-> w_peso,
                    w_viento     |-> w_viento,
                    w_viento_eff |-> w_eff,
                    w_resultante |-> w_res,
                    \* kN/m * m, in 1e-4 kN
                    W_resultante_tramo |-> (w_res * df_tramos[k].Distancia) \div 10000 ] ] ]


(***************************************************************************)
(* fuerzas_nodo.py                                                         *)
(***************************************************************************)
\* cos and sin of the wind azimuth (centidegrees), in 1e-4
unit_vector_from_azimut_deg(az) ==
    CASE az = 0    -> <<10000, 0>>
      [] az = 4500 -> <<7071, 7071>>
      [] az = 9000 -> <<0, 10000>>

\* first position of sep in s, 0 when absent
IndexOf(s, sep) ==
    LET hits == { i \in 1..(Len(s) - Len(sep) + 1) : SubSeq(s, i, i + Len(sep) - 1) = sep }
    IN  IF hits = {} THEN 0 ELSE CHOOSE i \in hits : \A j \in hits : i <= j

\* str.strip()
RECURSIVE Strip(_)
Strip(s) ==
    IF s = <<>> THEN s
    ELSE IF Head(s) = " " THEN Strip(Tail(s))
    ELSE IF s[Len(s)] = " " THEN Strip(SubSeq(s, 1, Len(s) - 1))
    ELSE s

\* str.split(): the maximal runs of non-blank characters
RECURSIVE SplitWs(_, _)
SplitWs(s, cur) ==
    IF s = <<>> THEN (IF cur = <<>> THEN <<>> ELSE <<cur>>)
    ELSE IF Head(s) = " "
         THEN (IF cur = <<>> THEN <<>> ELSE <<cur>>) \o SplitWs(Tail(s), <<>>)
         ELSE SplitWs(Tail(s), Append(cur, Head(s)))

EmDash == "EMDASH"

Separadores == << <<Arrow>>, <<"-", ">">>, <<EmDash, ">">>, <<"=", ">">> >>

\* result [ok, a, b]
split_tramo(tramo) ==
    LET s     == Strip(tramo)
        found == { n \in 1..Len(Separadores) : IndexOf(s, Separadores[n]) > 0 }
    IN  IF found # {}
        THEN LET n   == CHOOSE n \in found : \A m \in found : n <= m
                 sep == Separadores[n]
                 i   == IndexOf(s, sep)
             IN  [ ok |-> TRUE,
                   a  |-> Strip(SubSeq(s, 1, i - 1)),
                   b  |-> Strip(SubSeq(s, i + Len(sep), Len(s))) ]
        ELSE LET blanked == [ i \in 1..Len(s) |-> IF s[i] \in {"-", ">"} THEN " " ELSE s[i] ]
                 parts   == SplitWs(blanked, <<>>)
             IN  IF Len(parts) >= 2
                 THEN [ok |-> TRUE, a |-> parts[1], b |-> parts[2]]
                 ELSE [ok |-> FALSE, a |-> <<>>, b |-> <<>>]

\* F = w_eff (kN/m) * L (m), in 1e-4 kN
fuerza_tramo_kN(row) == (row.w_viento_eff * row.Distancia) \div 10000

\* mutant of ContribTramo: each end receives the whole span force
ContribTramoEntero(row, u, p) ==
    LET ab   == split_tramo(row.Tramo)
        F    == fuerza_tramo_kN(row)
        full == << (F * u[1]) \div 10000, (F * u[2]) \div 10000 >>
        n    == (IF ab.a = p THEN 1 ELSE 0) + (IF ab.b = p THEN 1 ELSE 0)
    IN  << n * full[1], n * full[2] >>

\* mutant of ContribTramo: only the first end of the span receives its half
ContribTramoSoloOrigen(row, u, p) ==
    LET ab   == split_tramo(row.Tramo)
        F    == fuerza_tramo_kN(row)
        half == << (F * u[1]) \div 20000, (F * u[2]) \div 20000 >>
        n    == IF ab.a = p THEN 1 ELSE 0
    IN  << n * half[1], n * half[2] >>

\* contribution of span k to point p: half of F * u_viento for each end it names
ContribTramo(row, u, p) ==
    LET ab   == split_tramo(row.Tramo)
        F    == fuerza_tramo_kN(row)
        half == << (F * u[1]) \div 20000, (F * u[2]) \div 20000 >>
        n    == (IF ab.a = p THEN 1 ELSE 0) + (IF ab.b = p THEN 1 ELSE 0)
    IN  << n * half[1], n * half[2] >>

RECURSIVE acumular_contribuciones(_, _, _, _)
acumular_contribuciones(tr, u, p, k) ==
    IF k > Len(tr) THEN <<0, 0>>
    ELSE LET c    == ContribTramo(tr[k], u, p)
             rest == acumular_contribuciones(tr, u, p, k + 1)
         IN  << c[1] + rest[1], c[2] + rest[2] >>

\* rows [Punto, Fx, Fy, H]: contrib.get(p, 0) for every point of the summary
armar_salida_por_punto(df_resumen, tr, u) ==
    [ i \in 1..Len(df_resumen) |->
        LET v == acumular_contribuciones(tr, u, df_resumen[i].Punto, 1)
        IN  [ Punto |-> df_resumen[i].Punto, Fx |-> v[1], Fy |-> v[2],
              H |-> ISqrt(v[1] * v[1] + v[2] * v[2]) ] ]

\* result [ok, err, val]
calcular_fuerzas_en_nodos(df_tramos, df_resumen, azimut_viento) ==
    IF df_tramos = <<>> THEN [ok |-> FALSE, err |-> "ValueError: df_tramos vacio", val |-> <<>>]
    ELSE IF df_resumen = <<>> THEN [ok |-> FALSE, err |-> "ValueError: df_resumen vacio", val |-> <<>>]
    ELSE IF \E k \in 1..Len(df_tramos) : ~split_tramo(df_tramos[k].Tramo).ok
    THEN [ok |-> FALSE, err |-> "ValueError: no pude interpretar Tramo", val |-> <<>>]
    ELSE [ ok |-> TRUE, err |-> "",
           val |-> armar_salida_por_punto(df_resumen, df_tramos,
                                          unit_vector_from_azimut_deg(azimut_viento)) ]


(***************************************************************************)
(* norma_postes.py                                                         *)
(***************************************************************************)
\* longitud in cm, carga_ruptura in kgf
POSTES_CONCRETO_TABLA_1 ==
    [ id \in {"PC-9-450", "PC-10-450", "PC-12-750", "PC-14-750", "PC-12-900-AUT",
              "PC-14-900-AUT", "PC-15-2000-AUT", "PC-18-2000-AUT"} |->
        CASE id = "PC-9-450"       -> [longitud |-> 915,  carga_ruptura_kgf |-> 450]
          [] id = "PC-10-450"      -> [longitud |-> 1067, carga_ruptura_kgf |-> 450]
          [] id = "PC-12-750"      -> [longitud |-> 1219, carga_ruptura_kgf |-> 750]
          [] id = "PC-14-750"      -> [longitud |-> 1371, carga_ruptura_kgf |-> 750]
          [] id = "PC-12-900-AUT"  -> [longitud |-> 1219, carga_ruptura_kgf |-> 900]
          [] id = "PC-14-900-AUT"  -> [longitud |-> 1371, carga_ruptura_kgf |-> 900]
          [] id = "PC-15-2000-AUT" -> [longitud |-> 1524, carga_ruptura_kgf |-> 2000]
          [] id = "PC-18-2000-AUT" -> [longitud |-> 1829, carga_ruptura_kgf |-> 2000] ]

\* carga_horizontal in 1e-4 kN
POSTES_CLASES_APENDICE ==
    [ c \in 1..7 |->
        CASE c = 1 -> 200000 [] c = 2 -> 165000 [] c = 3 -> 133000 [] c = 4 -> 107000
          [] c = 5 -> 84000  [] c = 6 -> 67000  [] c = 7 -> 53000 ]

ALIAS_POSTES ==
    [ k \in {"PM-40", "PC-40", "PC-35", "PC-30"} |->
        CASE k = "PM-40" -> "PC-12-750" [] k = "PC-40" -> "PC-12-750"
          [] k = "PC-35" -> "PC-10-450" [] k = "PC-30" -> "PC-9-450" ]

DEFAULT_ALTURA_POSTE_M == 1200

DEFAULT_OFFSET_AMARRE_DESDE_PUNTA_M == 200

DEFAULT_H_AMARRE_M == 750

resolver_id_normativo(tipo_poste) ==
    LET key == StripUpper(tipo_poste)
    IN  IF key \in DOMAIN POSTES_CONCRETO_TABLA_1 THEN key
        ELSE IF key \in DOMAIN ALIAS_POSTES THEN ALIAS_POSTES[key] ELSE key

\* the class number matched by (CLASE|CL)\s*[-:]?\s*(\d+), 0 when no match
parse_clase(tipo_poste) ==
    LET t == StripUpper(tipo_poste)
    IN  CASE t = "CLASE 5" -> 5
          [] t = "CL-3"    -> 3
          [] t = "CLASE 9" -> 9
          [] OTHER         -> 0

obtener_ficha_poste(tipo_poste) ==
    LET clase   == parse_clase(tipo_poste)
        id_norm == resolver_id_normativo(tipo_poste)
    IN  IF clase # 0 /\ clase \in DOMAIN POSTES_CLASES_APENDICE
        THEN [ fuente |-> "CLASES_APENDICE", id |-> tipo_poste, longitud |-> 0,
               carga_ruptura_kgf |-> 0, carga_horizontal |-> POSTES_CLASES_APENDICE[clase] ]
        ELSE IF id_norm \in DOMAIN POSTES_CONCRETO_TABLA_1
        THEN [ fuente |-> "CONCRETO_TABLA_1", id |-> id_norm,
               longitud |-> POSTES_CONCRETO_TABLA_1[id_norm].longitud,
               carga_ruptura_kgf |-> POSTES_CONCRETO_TABLA_1[id_norm].carga_ruptura_kgf,
               carga_horizontal |-> 0 ]
        ELSE [ fuente |-> "NO_ENCONTRADO", id |-> id_norm, longitud |-> 0,
               carga_ruptura_kgf |-> 0, carga_horizontal |-> 0 ]

altura_poste_m(tipo_poste, default_m) ==
    LET ficha == obtener_ficha_poste(tipo_poste)
    IN  IF ficha.fuente = "CONCRETO_TABLA_1" THEN ficha.longitud ELSE default_m

\* attachment height above ground, cm
h_amarre_tipica_m(tipo_poste, default_m) ==
    LET h   == altura_poste_m(tipo_poste, Max(default_m, 100))
        val == h - DEFAULT_OFFSET_AMARRE_DESDE_PUNTA_M
    IN  IF val > 0 THEN val ELSE default_m


(***************************************************************************)
(* engine.py, phase 03/04: node table; retenidas.py                        *)
(***************************************************************************)
\* rows of `right` whose Punto is p
Match(right, p) == { j \in 1..Len(right) : right[j].Punto = p }

\* left.merge(right, on="Punto", how="left") as the sequence of index pairs
\* <<i, j>>; every left row matches here (the right table is built from it)
RECURSIVE MergeLeft(_, _, _, _)
MergeLeft(left, right, i, j) ==
    IF i > Len(left) THEN <<>>
    ELSE IF j > Len(right) THEN MergeLeft(left, right, i + 1, 1)
    ELSE IF right[j].Punto = left[i].Punto
         THEN << <<i, j>> >> \o MergeLeft(left, right, i, j + 1)
         ELSE MergeLeft(left, right, i, j + 1)

\* mutant of armar_df_nodos: the guy-space flag is not read
armar_df_nodos_sin_espacio(resumen, fuerzas) ==
    LET m == MergeLeft(resumen, fuerzas, 1, 1)
    IN  [ k \in 1..Len(m) |->
            LET r == resumen[m[k][1]]
                f == fuerzas[m[k][2]]
            IN  [ Punto |-> r.Punto, Poste |-> r.Poste, Espacio |-> r.Espacio,
                  Retenidas |-> r.Retenidas, Fx |-> f.Fx, Fy |-> f.Fy, H |-> f.H,
                  h_amarre |-> h_amarre_tipica_m(r.Poste, DEFAULT_H_AMARRE_M),
                  Retenidas_aplican |-> (r.Retenidas > 0) ] ]

armar_df_nodos(resumen, fuerzas) ==
    LET m == MergeLeft(resumen, fuerzas, 1, 1)
    IN  [ k \in 1..Len(m) |->
            LET r == resumen[m[k][1]]
                f == fuerzas[m[k][2]]
            IN  [ Punto |-> r.Punto, Poste |-> r.Poste, Espacio |-> r.Espacio,
                  Retenidas |-> r.Retenidas, Fx |-> f.Fx, Fy |-> f.Fy, H |-> f.H,
                  h_amarre |-> h_amarre_tipica_m(r.Poste, DEFAULT_H_AMARRE_M),
                  Retenidas_aplican |-> (r.Retenidas > 0 /\ engine_si_no(r.Espacio)) ] ]

\* cos and sin of the guy angle (degrees), in 1e-4
Cos1e4(deg) ==
    CASE deg = 0 -> 10000 [] deg = 30 -> 8660 [] deg = 45 -> 7071 [] deg = 60 -> 5000
      [] deg = 90 -> 0 [] deg = 120 -> -5000

Sin1e4(deg) ==
    CASE deg = 0 -> 0 [] deg = 30 -> 5000 [] deg = 45 -> 7071 [] deg = 60 -> 8660
      [] deg = 90 -> 10000 [] deg = 120 -> 8660

\* math.cos(phi) <= 1e-9 raises
cos_safe_ok(deg) == Cos1e4(deg) > 0

\* T = H / cos(phi)
tension_retenida_kN(H, deg) == (H * 10000) \div Cos1e4(deg)

\* V = T * sin(phi)
componente_vertical_retenida_kN(T, deg) == (T * Sin1e4(deg)) \div 10000

\* H_ret = T * cos(phi)
componente_horizontal_retenida_kN(T, deg) == (T * Cos1e4(deg)) \div 10000

\* params: [cable_retenida, FS_retenida (tenths), ang_retenida_deg]
capacidad_admisible_retenida_kN(params) ==
    capacidad_retenida_admisible_kN(params.cable_retenida, params.FS_retenida)

\* one pass of the loop of calcular_retenidas (the row where `aplica` is read)
RetenidaRow(r, params, T_adm) ==
    LET H == r.H
    IN  IF r.Retenidas_aplican /\ H > 0
        THEN LET T    == tension_retenida_kN(H, params.ang_retenida_deg)
                 Hret == componente_horizontal_retenida_kN(T, params.ang_retenida_deg)
             IN  [ Punto |-> r.Punto, H_sin_retenida |-> H, T_retenida |-> T,
                   H_aporte_ret |-> Hret,
                   V_retenida |-> componente_vertical_retenida_kN(T, params.ang_retenida_deg),
                   H_poste_con_ret |-> Max(H - Hret, 0),
                   T_admisible_retenida |-> T_adm,
                   Utilizacion |-> IF T_adm > 0 THEN (1000 * T) \div T_adm ELSE 0,
                   Cumple_retenida |-> IF T <= T_adm THEN "SI" ELSE "NO",
                   Angulo_retenida |-> params.ang_retenida_deg,
                   FS_retenida |-> params.FS_retenida, Cable_retenida |-> params.cable_retenida ]
        ELSE [ Punto |-> r.Punto, H_sin_retenida |-> H, T_retenida |-> 0,
               H_aporte_ret |-> 0, V_retenida |-> 0, H_poste_con_ret |-> H,
               T_admisible_retenida |-> T_adm, Utilizacion |-> 0, Cumple_retenida |-> "-",
               Angulo_retenida |-> params.ang_retenida_deg,
               FS_retenida |-> params.FS_retenida, Cable_retenida |-> params.cable_retenida ]

\* result [ok, err, val]; the guy angle is checked only where a tension is computed
calcular_retenidas(df_nodos, params) ==
    IF df_nodos = <<>> THEN [ok |-> TRUE, err |-> "", val |-> <<>>]
    ELSE IF params.cable_retenida \notin DOMAIN CAP_RETENIDA_ULT_LBF
    THEN [ok |-> FALSE, err |-> "KeyError: cable de retenida", val |-> <<>>]
    ELSE IF \E k \in 1..Len(df_nodos) :
              df_nodos[k].Retenidas_aplican /\ df_nodos[k].H > 0
              /\ ~cos_safe_ok(params.ang_retenida_deg)
    THEN [ok |-> FALSE, err |-> "ValueError: angulo de retenida invalido", val |-> <<>>]
    ELSE [ ok |-> TRUE, err |-> "",
           val |-> [ k \in 1..Len(df_nodos) |->
                       RetenidaRow(df_nodos[k], params, capacidad_admisible_retenida_kN(params)) ] ]

\* engine._calcular_retenidas: cable from the gauge, FS 2.0, angle 45
engine_calcular_retenidas(df_nodos, calibre) ==
    calcular_retenidas(df_nodos,
        [ cable_retenida |-> retenida_recomendada(calibre), FS_retenida |-> 20,
          ang_retenida_deg |-> 45 ])


(***************************************************************************)
(* equilibrio_poste.py, cimentacion.py, momento_poste.py                   *)
(***************************************************************************)
\* engine.ejecutar_todo, step 05: the guy table gets Poste (merge with the
\* summary) and h_amarre; rows are the guy rows extended
asegurar_poste_y_amarre(df_ret, resumen) ==
    LET m == MergeLeft(df_ret, resumen, 1, 1)
    IN  [ k \in 1..Len(m) |->
            [ ret      |-> df_ret[m[k][1]],
              Punto    |-> df_ret[m[k][1]].Punto,
              Poste    |-> resumen[m[k][2]].Poste,
              h_amarre |-> h_amarre_tipica_m(resumen[m[k][2]].Poste, DEFAULT_H_AMARRE_M) ] ]

\* mutant of fuerza_residual_poste_kN: the difference is not clipped at 0
fuerza_residual_sin_clip(H_nodo, H_ret) == H_nodo - H_ret

fuerza_residual_poste_kN(H_nodo, H_ret) == Max(H_nodo - H_ret, 0)

\* kN * m, h in cm, in 1e-4 kN.m
momento_poste_kNm(H_poste, h_amarre) == (H_poste * h_amarre) \div 100

\* rows extended with H_retenida, H_poste, M_poste_real
equilibrar_poste_retenida(d) ==
    [ k \in 1..Len(d) |->
        LET H_nodo  == d[k].ret.H_sin_retenida
            H_ret   == componente_horizontal_retenida_kN(d[k].ret.T_retenida,
                                                         d[k].ret.Angulo_retenida)
            H_poste == fuerza_residual_poste_kN(H_nodo, H_ret)
        IN  [ Punto |-> d[k].Punto, Poste |-> d[k].Poste, h_amarre |-> d[k].h_amarre,
              ret |-> d[k].ret, H_retenida |-> H_ret, H_poste |-> H_poste,
              M_poste_real |-> momento_poste_kNm(H_poste, d[k].h_amarre) ] ]

cortante_base_kN(H_poste) == H_poste

momento_base_kNm(H_poste, h_amarre) == (H_poste * h_amarre) \div 100

\* R = M / d, d in cm
reaccion_suelo_equivalente_kN(M_base, profundidad) == (M_base * 100) \div profundidad

\* mutant of evaluar_cimentacion: a reaction equal to the capacity fails
evaluar_cimentacion_estricta(d, profundidad, capacidad_suelo) ==
    IF d = <<>> THEN [ok |-> TRUE, err |-> "", val |-> <<>>]
    ELSE IF profundidad <= 0
    THEN [ok |-> FALSE, err |-> "ValueError: profundidad de empotramiento", val |-> <<>>]
    ELSE [ ok |-> TRUE, err |-> "",
           val |-> [ k \in 1..Len(d) |->
             LET Mb == momento_base_kNm(d[k].H_poste, d[k].h_amarre)
                 R  == reaccion_suelo_equivalente_kN(Mb, profundidad)
             IN  [ Punto |-> d[k].Punto, H_poste |-> d[k].H_poste,
                   V_base |-> cortante_base_kN(d[k].H_poste), M_base |-> Mb,
                   R_suelo_eq |-> R, Capacidad_suelo |-> capacidad_suelo,
                   Cumple_cimentacion |-> IF R < capacidad_suelo THEN "SI" ELSE "NO" ] ] ]

\* result [ok, err, val]
evaluar_cimentacion(d, profundidad, capacidad_suelo) ==
    IF d = <<>> THEN [ok |-> TRUE, err |-> "", val |-> <<>>]
    ELSE IF profundidad <= 0
    THEN [ok |-> FALSE, err |-> "ValueError: profundidad de empotramiento", val |-> <<>>]
    ELSE [ ok |-> TRUE, err |-> "",
           val |-> [ k \in 1..Len(d) |->
             LET Mb == momento_base_kNm(d[k].H_poste, d[k].h_amarre)
                 R  == reaccion_suelo_equivalente_kN(Mb, profundidad)
             IN  [ Punto |-> d[k].Punto, H_poste |-> d[k].H_poste,
                   V_base |-> cortante_base_kN(d[k].H_poste), M_base |-> Mb,
                   R_suelo_eq |-> R, Capacidad_suelo |-> capacidad_suelo,
                   Cumple_cimentacion |-> IF R <= capacidad_suelo THEN "SI" ELSE "NO" ] ] ]

\* the equilibrium table already has a column Poste, so the merge with the
\* summary yields Poste_x / Poste_y and h_amarre falls back to the default;
\* result [ok, err, val], M_base rounded to 2 decimals
calcular_momento_poste(df_equilibrio, df_resumen) ==
    IF df_equilibrio = <<>>
    THEN [ok |-> FALSE, err |-> "ValueError: df_fuerzas_nodo vacio", val |-> <<>>]
    ELSE LET m == IF df_resumen = <<>>
                  THEN [ k \in 1..Len(df_equilibrio) |-> <<k, 0>> ]
                  ELSE MergeLeft(df_equilibrio, df_resumen, 1, 1)
         IN  [ ok |-> TRUE, err |-> "",
               val |-> [ k \in 1..Len(m) |->
                 LET e == df_equilibrio[m[k][1]]
                     h == IF df_resumen = <<>>
                          THEN h_amarre_tipica_m(e.Poste, DEFAULT_H_AMARRE_M)
                          ELSE DEFAULT_H_AMARRE_M
                 IN  [ Punto |-> e.Punto, H |-> e.H_poste, h_amarre |-> h,
                       M_base |-> (((e.H_poste * h) \div 100 + 50) \div 100) * 100 ] ] ]


(***************************************************************************)
(* decision_soporte.py                                                     *)
(***************************************************************************)
\* a missing cell (NaN after a left merge without match, or an absent column)
NaN == -1

\* decision_soporte._si_no: the flag as "SI" / "NO"
si_no(v) == IF StripUpper(v) \in {"SI", "S", "TRUE", "1"} THEN "SI" ELSE "NO"

\* pole catalog POSTES: key -> H_max_kN (1e-4 kN)
POSTES == [ k \in {"PC-40"} |-> [H_max_kN |-> 73575] ]

\* default capacity of an unknown pole type, 9999.0 kN
H_MAX_DEFAULT == 99990000

\* the definition of decision_soporte.py (it shadows the import from norma_postes)
H_max_poste_kN(tipo_poste) ==
    IF tipo_poste \in DOMAIN POSTES THEN POSTES[tipo_poste].H_max_kN ELSE H_MAX_DEFAULT

\* 0.30 m below the top, cm
APLICACION_CARGA_DESDE_PUNTA_M == 30

momento_ruptura_concreto_kNm(id_poste_norma) ==
    IF id_poste_norma \notin DOMAIN POSTES_CONCRETO_TABLA_1 THEN 0
    ELSE LET row == POSTES_CONCRETO_TABLA_1[id_poste_norma]
         IN  (kgf_to_kN(row.carga_ruptura_kgf)
                * (row.longitud - APLICACION_CARGA_DESDE_PUNTA_M)) \div 100

momento_ruptura_clase_kNm(clase, longitud) ==
    IF clase \notin DOMAIN POSTES_CLASES_APENDICE THEN 0
    ELSE ((POSTES_CLASES_APENDICE[clase] \div 100)
            * (longitud - APLICACION_CARGA_DESDE_PUNTA_M))

\* the capacity check of one row: [modo, Mrupt, Hcap, cumple_poste]
\* r: merged row; cols: columns of the merged table; fs10: FS_poste in tenths
CapacidadRow(r, cols, fs10) ==
    LET fs        == IF fs10 > 0 THEN fs10 ELSE 10
        M_dem_ok  == "M_poste" \in cols /\ r.M_poste # NaN
        concreto  == M_dem_ok /\ "Poste_Norma" \in cols
                     /\ r.Poste_Norma \in DOMAIN POSTES_CONCRETO_TABLA_1
        clase     == M_dem_ok /\ ~concreto /\ "Clase_Poste" \in cols
                     /\ r.Clase_Poste # NaN /\ r.Longitud_Poste_m # NaN
                     /\ r.Clase_Poste \in DOMAIN POSTES_CLASES_APENDICE
                     /\ r.Longitud_Poste_m > 0
        modo      == IF concreto THEN "NORMATIVO_CONCRETO"
                     ELSE IF clase THEN "NORMATIVO_CLASE" ELSE "LEGACY"
        Mrupt     == IF concreto THEN momento_ruptura_concreto_kNm(r.Poste_Norma)
                     ELSE IF clase
                          THEN momento_ruptura_clase_kNm(r.Clase_Poste, r.Longitud_Poste_m)
                          ELSE 0
    IN  IF modo # "LEGACY" /\ Mrupt > 0
        THEN LET Madm == (Mrupt * 10) \div fs
                 h    == IF "h_amarre" \in cols /\ r.h_amarre # NaN THEN r.h_amarre ELSE 0
             IN  [ modo |-> modo, Mrupt |-> Mrupt,
                   Hcap |-> IF h > 0 THEN (Madm * 100) \div h ELSE 0,
                   cumple_poste |-> IF r.M_poste <= Madm THEN "SI" ELSE "NO" ]
        ELSE LET Hcap == H_max_poste_kN(StrStrip(r.Poste))
             IN  [ modo |-> "LEGACY", Mrupt |-> Mrupt, Hcap |-> Hcap,
                   \* a NaN demand compares False
                   cumple_poste |-> IF r.H # NaN /\ r.H <= Hcap THEN "SI" ELSE "NO" ]

\* mutant of SolucionRow: a point with required guys is guyed without reading
\* the guy-space flag
SolucionRowSinEspacio(ret, espacio, cumple_poste) ==
    IF ret > 0 THEN <<"RETENIDA", "Estructura requiere retenida">>
    ELSE IF cumple_poste = "SI" THEN <<"POSTE SOLO", "Paso / sin retenida">>
    ELSE <<"AUTOSOPORTADO", "No cumple poste solo">>

\* mutant of SolucionRow: the pole check is not read when no guy is required
SolucionRowSinPoste(ret, espacio, cumple_poste) ==
    IF ret > 0
    THEN IF espacio = "SI"
         THEN <<"RETENIDA", "Estructura requiere retenida">>
         ELSE <<"AUTOSOPORTADO", "Estructura requiere retenida pero no hay espacio">>
    ELSE <<"POSTE SOLO", "Paso / sin retenida">>

\* mutant of SolucionRow: a required guy is placed only when the pole check passes
SolucionRowExigePoste(ret, espacio, cumple_poste) ==
    IF ret > 0
    THEN IF espacio = "SI" /\ cumple_poste = "SI"
         THEN <<"RETENIDA", "Estructura requiere retenida">>
         ELSE <<"AUTOSOPORTADO", "Estructura requiere retenida pero no hay espacio">>
    ELSE IF cumple_poste = "SI"
         THEN <<"POSTE SOLO", "Paso / sin retenida">>
         ELSE <<"AUTOSOPORTADO", "No cumple poste solo">>

\* mutant of SolucionRow: without required guys the pole stands alone only where
\* there is guy space
SolucionRowSoloConEspacio(ret, espacio, cumple_poste) ==
    IF ret > 0
    THEN IF espacio = "SI"
         THEN <<"RETENIDA", "Estructura requiere retenida">>
         ELSE <<"AUTOSOPORTADO", "Estructura requiere retenida pero no hay espacio">>
    ELSE IF cumple_poste = "SI" /\ espacio = "SI"
         THEN <<"POSTE SOLO", "Paso / sin retenida">>
         ELSE <<"AUTOSOPORTADO", "No cumple poste solo">>

\* mutant of SolucionRow: a required guy on an overloaded point is judged
\* insufficient
SolucionRowRetenidaInsuficiente(ret, espacio, cumple_poste) ==
    IF ret > 0
    THEN IF espacio = "SI"
         THEN IF cumple_poste = "SI"
              THEN <<"RETENIDA", "Estructura requiere retenida">>
              ELSE <<"AUTOSOPORTADO", "Retenida insuficiente">>
         ELSE <<"AUTOSOPORTADO", "Estructura requiere retenida pero no hay espacio">>
    ELSE IF cumple_poste = "SI"
         THEN <<"POSTE SOLO", "Paso / sin retenida">>
         ELSE <<"AUTOSOPORTADO", "No cumple poste solo">>

\* mutant of SolucionRow: a point whose pole check passes stands alone, with
\* or without required guys
SolucionRowPosteAntes(ret, espacio, cumple_poste) ==
    IF cumple_poste = "SI" THEN <<"POSTE SOLO", "Paso / sin retenida">>
    ELSE IF ret > 0 /\ espacio = "SI" THEN <<"RETENIDA", "Estructura requiere retenida">>
    ELSE <<"AUTOSOPORTADO", "No cumple poste solo">>

\* the decision of one row: <<Solucion, motivo>> (decision_soporte.py 161-174)
SolucionRow(ret, espacio, cumple_poste) ==
    IF ret > 0
    THEN IF espacio = "SI"
         THEN <<"RETENIDA", "Estructura requiere retenida">>
         ELSE <<"AUTOSOPORTADO", "Estructura requiere retenida pero no hay espacio">>
    ELSE IF cumple_poste = "SI"
         THEN <<"POSTE SOLO", "Paso / sin retenida">>
         ELSE <<"AUTOSOPORTADO", "No cumple poste solo">>

\* df_resumen.merge(fuerzas).merge(momento): one merged row per match, NaN cells
\* where a left row has no match; tables are [cols, rows]
MergeRow(r, f, m) ==
    [ Punto |-> r.Punto, Poste |-> r.Poste, Espacio |-> r.Espacio,
      Retenidas |-> r.Retenidas, Poste_Norma |-> r.Poste_Norma,
      Clase_Poste |-> r.Clase_Poste, Longitud_Poste_m |-> r.Longitud_Poste_m,
      H |-> f.H, h_amarre |-> m.h_amarre, M_poste |-> m.M_poste ]

NaNFuerza == [H |-> NaN]

NaNMomento == [h_amarre |-> NaN, M_poste |-> NaN]

RECURSIVE MergeDecision(_, _, _, _)
MergeDecision(res, fz, mo, i) ==
    IF i > Len(res) THEN <<>>
    ELSE LET fs == IF Match(fz, res[i].Punto) = {} THEN <<NaNFuerza>>
                   ELSE SelectSeq(fz, LAMBDA x : x.Punto = res[i].Punto)
             ms == IF Match(mo, res[i].Punto) = {} THEN <<NaNMomento>>
                   ELSE SelectSeq(mo, LAMBDA x : x.Punto = res[i].Punto)
         IN  [ k \in 1..(Len(fs) * Len(ms)) |->
                 MergeRow(res[i], fs[((k - 1) \div Len(ms)) + 1], ms[((k - 1) % Len(ms)) + 1]) ]
             \o MergeDecision(res, fz, mo, i + 1)

\* the tables are [none, cols, rows] (none: the argument is None);
\* result [ok, err, val]
decidir_soporte(df_resumen, df_fuerzas_nodo, df_momento_poste, FS_poste) ==
    LET fail(e) == [ok |-> FALSE, err |-> e, val |-> <<>>]
    IN  IF df_resumen.none \/ df_resumen.rows = <<>> THEN fail("ValueError: df_resumen vacio")
        ELSE IF df_fuerzas_nodo.none \/ df_fuerzas_nodo.rows = <<>>
        THEN fail("ValueError: df_fuerzas_nodo vacio")
        ELSE IF "Punto" \notin df_resumen.cols \/ "Punto" \notin df_fuerzas_nodo.cols
        THEN fail("ValueError: falta columna Punto")
        ELSE IF ~({"H", "Fx", "Fy"} \subseteq df_fuerzas_nodo.cols)
        THEN fail("KeyError: columnas de fuerzas")
        ELSE
          LET usa_mo == ~df_momento_poste.none /\ df_momento_poste.rows # <<>>
                        /\ "Punto" \in df_momento_poste.cols
              cols   == df_resumen.cols \cup {"H", "Fx", "Fy"}
                        \cup (IF usa_mo THEN df_momento_poste.cols ELSE {})
              m      == MergeDecision(df_resumen.rows, df_fuerzas_nodo.rows,
                                      IF usa_mo THEN df_momento_poste.rows ELSE <<>>, 1)
          IN  IF ~({"Poste", "Espacio Retenida", "Retenidas"} \subseteq cols)
              THEN fail("ValueError: df_resumen debe incluir columna")
              ELSE [ ok |-> TRUE, err |-> "",
                     val |-> [ k \in 1..Len(m) |->
                       LET cap == CapacidadRow(m[k], cols, FS_poste)
                           sol == SolucionRow(m[k].Retenidas, si_no(m[k].Espacio),
                                              cap.cumple_poste)
                       IN  [ Punto |-> m[k].Punto, Retenidas |-> m[k].Retenidas,
                             Espacio |-> m[k].Espacio, Poste |-> m[k].Poste,
                             H |-> m[k].H, H_cap |-> cap.Hcap, modo |-> cap.modo,
                             Cumple_poste |-> cap.cumple_poste,
                             Solucion |-> sol[1], Motivo |-> sol[2] ] ] ]


(***************************************************************************)
(* engine.ejecutar_todo as a state machine: one action per stage call.     *)
(***************************************************************************)
\* routes of n points: first point at the origin, then one step per span
RECURSIVE Rutas(_)
Rutas(n) ==
    IF n = 0 THEN { <<>> }
    ELSE IF n = 1 THEN { << <<0, 0>> >> }
    ELSE { Append(r, <<r[Len(r)][1] + st[1], r[Len(r)][2] + st[2]>>) :
             r \in Rutas(n - 1), st \in Steps }

\* input tables as leer_puntos_excel returns them
Entradas ==
    UNION { { [ i \in 1..n |-> [ Punto |-> Etiqueta(i), X |-> r[i][1], Y |-> r[i][2],
                                 Poste |-> poste, Espacio |-> esp[i] ] ] :
                r \in Rutas(n), esp \in [1..n -> {"SI", "NO"}], poste \in {"PC-40", "ZZ"} } :
            n \in 0..MaxPts }

Configs ==
    { [ calibre |-> c[1], n_fases |-> 3, v_viento_ms |-> c[2], az_viento_deg |-> c[3],
        diametro_m |-> 1134, Cd |-> 12, rho |-> 1225, cols |-> BaseCols ] :
        c \in { <<"2/0 ACSR", 0, 0>>, <<"2/0 ACSR", 30, 9000>>, <<"XX", 0, 0>> } }

NoCall == [fn |-> "none"]

NoRet == [ok |-> FALSE, err |-> "", val |-> <<>>]

EmptyGeo == [ k \in {} |-> <<>> ]

Init ==
    /\ df \in Entradas
    /\ cfg \in Configs
    /\ pc = "geometria"
    /\ geo = EmptyGeo
    /\ stages = <<>>
    /\ err = ""
    /\ call = NoCall
    /\ retval = NoRet

\* a stage call returned a table: store it under `key` and go on
Store(key, r, name, next) ==
    IF r.ok
    THEN /\ geo' = geo @@ (key :> r.val)
         /\ stages' = Append(stages, name)
         /\ pc' = next
         /\ err' = ""
    ELSE /\ geo' = geo
         /\ stages' = stages
         /\ pc' = "error"
         /\ err' = r.err

Ok(v) == [ok |-> TRUE, err |-> "", val |-> v]

\* 01) geo = ejecutar_fase_geometria(df)
Geometria ==
    /\ pc = "geometria"
    /\ LET g == ejecutar_fase_geometria(df, cfg.cols)
       IN  IF g.ok
           THEN /\ geo' = ( "tramos" :> g.tramos @@ "deflexiones" :> g.deflexiones
                            @@ "resumen" :> g.resumen @@ "total_m" :> g.total_m )
                /\ stages' = Append(stages, "geometria")
                /\ pc' = "cargas_tramo"
                /\ err' = ""
           ELSE /\ pc' = "error"
                /\ err' = g.err
                /\ UNCHANGED <<geo, stages>>
    /\ UNCHANGED <<df, cfg, call, retval>>

\* 02) geo["cargas_tramo"] = ejecutar_cargas_tramo(...)
CargasTramo ==
    /\ pc = "cargas_tramo"
    /\ Store("cargas_tramo",
             calcular_cargas_por_tramo(geo["tramos"], cfg.calibre, cfg.n_fases,
                 cfg.v_viento_ms, cfg.az_viento_deg, cfg.diametro_m, cfg.Cd, cfg.rho),
             "cargas_tramo", "fuerzas_nodo")
    /\ UNCHANGED <<df, cfg, call, retval>>

\* 03) geo["fuerzas_nodo"] = calcular_fuerzas_en_nodos(...)
FuerzasNodo ==
    /\ pc = "fuerzas_nodo"
    /\ Store("fuerzas_nodo",
             calcular_fuerzas_en_nodos(geo["cargas_tramo"], geo["resumen"], cfg.az_viento_deg),
             "fuerzas_nodo", "nodos")
    /\ UNCHANGED <<df, cfg, call, retval>>

\* 04) geo["nodos"] = _armar_df_nodos(...)
Nodos ==
    /\ pc = "nodos"
    /\ Store("nodos", Ok(armar_df_nodos(geo["resumen"], geo["fuerzas_nodo"])),
             "nodos", "retenidas")
    /\ UNCHANGED <<df, cfg, call, retval>>

\* 05) geo["retenidas"] = _calcular_retenidas(...), then Poste and h_amarre
Retenidas ==
    /\ pc = "retenidas"
    /\ LET r == engine_calcular_retenidas(geo["nodos"], cfg.calibre)
       IN  Store("retenidas",
                 IF r.ok THEN Ok(asegurar_poste_y_amarre(r.val, geo["resumen"])) ELSE r,
                 "retenidas", "equilibrio")
    /\ UNCHANGED <<df, cfg, call, retval>>

\* 06) geo["equilibrio"] = equilibrar_poste_retenida(...)
Equilibrio ==
    /\ pc = "equilibrio"
    /\ Store("equilibrio", Ok(equilibrar_poste_retenida(geo["retenidas"])),
             "equilibrio", "cimentacion")
    /\ UNCHANGED <<df, cfg, call, retval>>

\* embedment depth 2.0 m (cm) and admissible soil capacity 50 kN passed by the engine
PROFUNDIDAD_EMPOTRAMIENTO == 200

CAPACIDAD_SUELO == 500000

\* 07) geo["cimentacion"] = evaluar_cimentacion(...)
Cimentacion ==
    /\ pc = "cimentacion"
    /\ Store("cimentacion",
             evaluar_cimentacion(geo["equilibrio"], PROFUNDIDAD_EMPOTRAMIENTO, CAPACIDAD_SUELO),
             "cimentacion", "momento_poste")
    /\ UNCHANGED <<df, cfg, call, retval>>

\* 08) geo["momento_poste"] = calcular_momento_poste(...)
MomentoPoste ==
    /\ pc = "momento_poste"
    /\ Store("momento_poste", calcular_momento_poste(geo["equilibrio"], geo["resumen"]),
             "momento_poste", "decision")
    /\ UNCHANGED <<df, cfg, call, retval>>

\* parameters of decidir_soporte and the keywords the engine passes
DecidirParams == {"df_resumen", "df_fuerzas_nodo", "df_momento_poste", "FS_poste"}

DecidirRequired == {"df_resumen", "df_fuerzas_nodo"}

EngineKwargs == {"df_resumen", "df_equilibrio", "df_cimentacion"}

\* Python's argument binding: "" when the call binds
BindError(kwargs, params, required) ==
    IF kwargs \ params # {} THEN "TypeError: unexpected keyword argument"
    ELSE IF required \ kwargs # {} THEN "TypeError: missing required argument"
    ELSE ""

Tabla(cols, rows) == [none |-> FALSE, cols |-> cols, rows |-> rows]

NoneTable == [none |-> TRUE, cols |-> {}, rows |-> <<>>]

\* the summary rows with the optional normative columns absent
ResumenDecision(resumen) ==
    Tabla({"Punto", "Poste", "Espacio Retenida", "Retenidas", "Estructura"},
          [ i \in 1..Len(resumen) |->
              [ Punto |-> resumen[i].Punto, Poste |-> resumen[i].Poste,
                Espacio |-> resumen[i].Espacio, Retenidas |-> resumen[i].Retenidas,
                Poste_Norma |-> "", Clase_Poste |-> NaN, Longitud_Poste_m |-> NaN ] ])

\* analizar_perfil: None without the column "Altitud"
analizar_perfil(cols) == IF "Altitud" \in cols THEN "perfil" ELSE None

\* 09) geo["decision"] = decidir_soporte(df_resumen=, df_equilibrio=, df_cimentacion=)
\* 10) geo["perfil"] = analizar_perfil(...); return geo
Decision ==
    /\ pc = "decision"
    /\ LET bind == BindError(EngineKwargs, DecidirParams, DecidirRequired)
           r    == IF bind # "" THEN [ok |-> FALSE, err |-> bind, val |-> <<>>]
                   ELSE decidir_soporte(ResumenDecision(geo["resumen"]),
                            Tabla({"Punto", "Fx", "Fy", "H"}, geo["fuerzas_nodo"]),
                            NoneTable, 20)
       IN  IF r.ok
           THEN /\ geo' = geo @@ ("decision" :> r.val) @@ ("perfil" :> analizar_perfil(cfg.cols))
                /\ stages' = stages \o <<"decision", "perfil">>
                /\ pc' = "done"
                /\ err' = ""
           ELSE /\ pc' = "error"
                /\ err' = r.err
                /\ UNCHANGED <<geo, stages>>
    /\ UNCHANGED <<df, cfg, call, retval>>

Next ==
    \/ Geometria
    \/ CargasTramo
    \/ FuerzasNodo
    \/ Nodos
    \/ Retenidas
    \/ Equilibrio
    \/ Cimentacion
    \/ MomentoPoste
    \/ Decision

Spec == Init /\ [][Next]_vars


(***************************************************************************)
(* geometria.clasificar_por_angulo applied to pairs of angles              *)
(***************************************************************************)
\* angles in centidegrees: every 2.5 degrees of [0, 180] and the neighbours of
\* the thresholds
Angulos ==
    { 250 * k : k \in 0..72 } \cup { b + e : b \in {500, 3000, 6000, 9000}, e \in {-1, 1} }

InitClasificar ==
    /\ call \in { [fn |-> "clasificar_por_angulo", a |-> a, b |-> b] : a, b \in Angulos }
    /\ retval = NoRet
    /\ pc = "call"
    /\ df = <<>>
    /\ cfg = EmptyGeo
    /\ geo = EmptyGeo
    /\ stages = <<>>
    /\ err = ""

Clasificar ==
    /\ pc = "call"
    /\ call.fn = "clasificar_por_angulo"
    /\ retval' = Ok(<<clasificar_por_angulo(call.a), clasificar_por_angulo(call.b)>>)
    /\ pc' = "return"
    /\ UNCHANGED <<df, cfg, geo, stages, err, call>>

NextClasificar == Clasificar

SpecClasificar == InitClasificar /\ [][NextClasificar]_vars

(***************************************************************************)
(* decision_soporte.decidir_soporte applied to one-row tables              *)
(***************************************************************************)
P1 == Etiqueta(1)

P2 == Etiqueta(2)

\* the summary table: the normative columns are optional
ResumenesDecidir ==
    { Tabla({"Punto", "Poste", "Espacio Retenida", "Retenidas"} \cup nc[1],
            << [ Punto |-> P1, Poste |-> poste, Espacio |-> esp, Retenidas |-> n,
                 Poste_Norma |-> nc[2], Clase_Poste |-> nc[3], Longitud_Poste_m |-> nc[4] ] >>) :
        poste \in {"PC-40", ""}, esp \in {"SI", "s", "NO"}, n \in 0..MaxRet,
        nc \in { <<{}, "", NaN, NaN>>,
                 <<{"Poste_Norma"}, "PC-12-750", NaN, NaN>>,
                 <<{"Poste_Norma", "Clase_Poste", "Longitud_Poste_m"}, "ZZ", 3, 1200>> } }

\* the nodal forces: a row of the point, or only a row of another point
FuerzasDecidir ==
    { Tabla({"Punto", "Fx", "Fy", "H"}, << [Punto |-> p[1], Fx |-> p[2], Fy |-> 0, H |-> p[2]] >>) :
        p \in { <<P1, 0>>, <<P1, 50000>>, <<P1, 120000>>, <<P2, 50000>> } }

\* the pole moments: None, or a row with the demand "M_poste (kN·m)"
MomentosDecidir ==
    { NoneTable }
    \cup { Tabla({"Punto", "h_amarre", "M_poste"},
                 << [Punto |-> P1, h_amarre |-> DEFAULT_H_AMARRE_M, M_poste |-> m] >>) :
             m \in {300000, 600000} }

\* the foundation table of evaluar_cimentacion for the same point
CimentacionesDecidir ==
    { Tabla({"Punto", "Cumple cimentacion"}, << [Punto |-> P1, Cumple |-> c] >>) :
        c \in {"SI", "NO"} }

InitDecidir ==
    /\ call \in { [ fn |-> "decidir_soporte", df_resumen |-> r, df_fuerzas_nodo |-> f,
                    df_momento_poste |-> m, FS_poste |-> fs, df_cimentacion |-> c ] :
                  r \in ResumenesDecidir \cup {NoneTable}, f \in FuerzasDecidir,
                  m \in MomentosDecidir, fs \in {20, 0}, c \in CimentacionesDecidir }
    /\ retval = NoRet
    /\ pc = "call"
    /\ df = <<>>
    /\ cfg = EmptyGeo
    /\ geo = EmptyGeo
    /\ stages = <<>>
    /\ err = ""

\* decidir_soporte has no parameter for the foundation table
Decidir ==
    /\ pc = "call"
    /\ call.fn = "decidir_soporte"
    /\ retval' = decidir_soporte(call.df_resumen, call.df_fuerzas_nodo,
                                 call.df_momento_poste, call.FS_poste)
    /\ pc' = "return"
    /\ UNCHANGED <<df, cfg, geo, stages, err, call>>

NextDecidir == Decidir

SpecDecidir == InitDecidir /\ [][NextDecidir]_vars

(***************************************************************************)
(* Properties of decidir_soporte (SpecDecidir)                             *)
(***************************************************************************)
\* the decided rows, each with the input row of its point and the foundation
\* flag of that point
Decididos ==
    IF pc = "return" /\ call.fn = "decidir_soporte" /\ retval.ok
    THEN { [ out |-> retval.val[k], in |-> call.df_resumen.rows[i],
             cim |-> call.df_cimentacion.rows[j].Cumple ] :
             k \in 1..Len(retval.val), i \in 1..Len(call.df_resumen.rows),
             j \in 1..Len(call.df_cimentacion.rows) }
    ELSE {}

HayEspacio(d) == si_no(d.in.Espacio) = "SI"

\* C1: a point with required guys > 0, guy space and a passing foundation check
\* is decided RETENIDA, whatever the nodal force and the pole check are
C1_Retenida ==
    \A d \in Decididos :
        (d.in.Retenidas > 0 /\ HayEspacio(d) /\ d.cim = "SI") => d.out.Solucion = "RETENIDA"

\* the case of C1 with a failing pole check and a force above the pole capacity
C1_Witness ==
    \E d \in Decididos :
        /\ d.in.Retenidas > 0 /\ HayEspacio(d) /\ d.cim = "SI"
        /\ d.out.Cumple_poste = "NO" /\ d.out.H > d.out.H_cap
        /\ d.out.Solucion = "RETENIDA"

\* C2: a point with required guys > 0 and guy space whose foundation check
\* fails is decided AUTOSOPORTADO, not RETENIDA
C2_CimentacionFalla ==
    \A d \in Decididos :
        (d.in.Retenidas > 0 /\ HayEspacio(d) /\ d.cim = "NO") => d.out.Solucion = "AUTOSOPORTADO"

\* C3: a point with required guys > 0 and no guy space is decided AUTOSOPORTADO,
\* whatever the pole check and the foundation check are
C3_SinEspacio ==
    \A d \in Decididos :
        (d.in.Retenidas > 0 /\ ~HayEspacio(d)) => d.out.Solucion = "AUTOSOPORTADO"

\* the case of C3 with a passing pole check and a passing foundation check
C3_Witness ==
    \E d \in Decididos :
        /\ d.in.Retenidas > 0 /\ ~HayEspacio(d)
        /\ d.out.Cumple_poste = "SI" /\ d.cim = "SI"
        /\ d.out.Solucion = "AUTOSOPORTADO"

\* C4: a point with no required guy whose pole check and foundation check pass
\* is decided POSTE SOLO
C4_PosteSolo ==
    \A d \in Decididos :
        (d.in.Retenidas = 0 /\ d.out.Cumple_poste = "SI" /\ d.cim = "SI")
            => d.out.Solucion = "POSTE SOLO"

\* the case of C4 without guy space, the demand within the legacy capacity
C4_Witness ==
    \E d \in Decididos :
        /\ d.in.Retenidas = 0 /\ d.out.Cumple_poste = "SI" /\ d.cim = "SI"
        /\ ~HayEspacio(d) /\ d.out.modo = "LEGACY" /\ d.out.H # NaN /\ d.out.H <= d.out.H_cap
        /\ d.out.Solucion = "POSTE SOLO"

\* C5: a point with no required guy whose pole check fails is decided
\* AUTOSOPORTADO, with or without guy space
C5_PosteNoCumple ==
    \A d \in Decididos :
        (d.in.Retenidas = 0 /\ d.out.Cumple_poste = "NO") => d.out.Solucion = "AUTOSOPORTADO"

\* the case of C5 with guy space and a moment demand above the admissible moment
C5_Witness ==
    \E d \in Decididos :
        /\ d.in.Retenidas = 0 /\ d.out.Cumple_poste = "NO"
        /\ HayEspacio(d) /\ d.out.modo = "NORMATIVO_CONCRETO"
        /\ d.out.Solucion = "AUTOSOPORTADO"

(***************************************************************************)
(* Properties of clasificar_por_angulo (SpecClasificar)                    *)
(***************************************************************************)
Clasificados ==
    IF pc = "return" /\ call.fn = "clasificar_por_angulo"
    THEN { [ang |-> call.a, cls |-> retval.val[1]], [ang |-> call.b, cls |-> retval.val[2]] }
    ELSE {}

\* C8: every angle gets exactly the pair of its bucket, with exclusive
\* thresholds: > 60 (Giro, 2); (30, 60] (Doble remate, 3); (5, 30] (Angulo, 1);
\* <= 5 (Paso, 0); so 5, 30 and 60 fall in the lower bucket
C8_Umbrales ==
    \A c \in Clasificados :
        /\ (c.ang > 6000) => c.cls = <<"Giro", 2>>
        /\ (c.ang > 3000 /\ c.ang <= 6000) => c.cls = <<"Doble remate", 3>>
        /\ (c.ang > 500 /\ c.ang <= 3000) => c.cls = <<"Angulo", 1>>
        /\ (c.ang <= 500) => c.cls = <<"Paso", 0>>

\* the boundary angles 60 and 30 classified in their lower buckets
C8_Witness ==
    /\ pc = "return" /\ call.fn = "clasificar_por_angulo"
    /\ call.a = 6000 /\ retval.val[1] = <<"Doble remate", 3>>
    /\ call.b = 3000 /\ retval.val[2] = <<"Angulo", 1>>

\* C9 as stated: for a <= b the guy count of a is <= the guy count of b
C9_Monotona ==
    (pc = "return" /\ call.fn = "clasificar_por_angulo" /\ call.a <= call.b)
        => retval.val[1][2] <= retval.val[2][2]

\* C9 amended: for a <= b the guy count does not decrease, except from the
\* bucket (30, 60] to an angle > 60, where it drops from 3 to 2
C9_MonotonaSalvoGiro ==
    (pc = "return" /\ call.fn = "clasificar_por_angulo" /\ call.a <= call.b)
        => IF call.a > 3000 /\ call.a <= 6000 /\ call.b > 6000
           THEN retval.val[1][2] = 3 /\ retval.val[2][2] = 2
           ELSE retval.val[1][2] <= retval.val[2][2]

\* 45 and 90 degrees: the guy count drops
C9_Witness ==
    /\ pc = "return" /\ call.fn = "clasificar_por_angulo"
    /\ call.a = 4500 /\ call.b = 9000
    /\ retval.val[1][2] = 3 /\ retval.val[2][2] = 2

(***************************************************************************)
(* Properties of ejecutar_todo (Spec)                                      *)
(***************************************************************************)
\* at least 2 points, unique labels, known gauge, the columns of the reader
EntradaValida ==
    /\ Len(df) >= 2
    /\ \A i, j \in 1..Len(df) : df[i].Punto = df[j].Punto => i = j
    /\ cfg.calibre \in DOMAIN CONDUCTORES_ACSR
    /\ BaseCols \subseteq cfg.cols

Terminado == pc \in {"done", "error"}

\* s is a subsequence of t
RECURSIVE SubSeqDe(_, _)
SubSeqDe(s, t) ==
    IF s = <<>> THEN TRUE
    ELSE IF t = <<>> THEN FALSE
    ELSE IF Head(s) = Head(t) THEN SubSeqDe(Tail(s), Tail(t))
    ELSE SubSeqDe(s, Tail(t))

OrdenEtapas ==
    <<"geometria", "cargas_tramo", "fuerzas_nodo", "retenidas", "equilibrio",
      "cimentacion", "decision">>

\* C6: a run on a valid input ends successfully, the stages ran in order, the
\* bundle holds a table per stage and one verdict per input point
C6_TerminaConBundle ==
    (Terminado /\ EntradaValida) =>
        /\ pc = "done"
        /\ err = ""
        /\ SubSeqDe(OrdenEtapas, stages)
        /\ {"tramos", "resumen", "cargas_tramo", "fuerzas_nodo", "retenidas",
            "equilibrio", "cimentacion", "decision"} \subseteq DOMAIN geo
        /\ Len(geo["decision"]) = Len(df)
        /\ \A i \in 1..Len(df) :
             /\ geo["decision"][i].Punto = df[i].Punto
             /\ geo["decision"][i].Solucion \in {"RETENIDA", "AUTOSOPORTADO", "POSTE SOLO"}

\* the turning angle at the interior point i of the input route, as the
\* geometry stage computes it
AnguloInterior(i) ==
    Abs(18000 - Round2(deflexion_deg(<<df[i - 1].X, df[i - 1].Y>>, <<df[i].X, df[i].Y>>,
                                     <<df[i + 1].X, df[i + 1].Y>>)))

EsRemate(r) == r.Estructura = "Remate" /\ r.Retenidas = 1

\* C7: in the summary the first and the last point are Remate with 1 guy for
\* every route; each interior point carries the classification of its angle
C7_ExtremosRemate ==
    "resumen" \in DOMAIN geo =>
        LET r == geo["resumen"]
        IN  /\ Len(r) = Len(df)
            /\ EsRemate(r[1])
            /\ EsRemate(r[Len(r)])
            /\ \A i \in 2..(Len(r) - 1) :
                 <<r[i].Estructura, r[i].Retenidas>> = clasificar_por_angulo(AnguloInterior(i))

\* a 3-point route with a 90 degree corner at its interior point: the corner
\* is a Giro, both ends are Remate
C7_Witness ==
    /\ "resumen" \in DOMAIN geo
    /\ Len(geo["resumen"]) = 3
    /\ geo["resumen"][2].Estructura = "Giro"
    /\ AnguloInterior(2) = 9000
    /\ EsRemate(geo["resumen"][1]) /\ EsRemate(geo["resumen"][3])

\* the guy rows, each with the summary row of its point
FilasRetenidas ==
    IF "retenidas" \in DOMAIN geo
    THEN { [ret |-> geo["retenidas"][k].ret, res |-> geo["resumen"][i]] :
             k \in 1..Len(geo["retenidas"]), i \in 1..Len(geo["resumen"]) }
    ELSE {}

MismoPunto(f) == f.ret.Punto = f.res.Punto

Aplica(f) == f.res.Retenidas > 0 /\ engine_si_no(f.res.Espacio)

SinDemanda(f) ==
    /\ f.ret.T_retenida = 0
    /\ f.ret.H_aporte_ret = 0
    /\ f.ret.V_retenida = 0
    /\ f.ret.Cumple_retenida = "-"

\* C10: a guy tension is computed only where required guys > 0 and there is guy
\* space; every other point has tension 0, components 0 and the flag "-"
C10_DemandaSoloDondeAplica ==
    \A f \in FilasRetenidas :
        MismoPunto(f) =>
            /\ ~Aplica(f) => SinDemanda(f)
            /\ f.ret.T_retenida > 0 => Aplica(f)

\* one table with a loaded point without guy space (no demand) and a loaded
\* point with guys and guy space (a tension)
C10_Witness ==
    /\ \E f \in FilasRetenidas :
         /\ MismoPunto(f) /\ f.res.Retenidas > 0 /\ ~engine_si_no(f.res.Espacio)
         /\ f.ret.H_sin_retenida > 0 /\ SinDemanda(f)
    /\ \E f \in FilasRetenidas :
         /\ MismoPunto(f) /\ Aplica(f) /\ f.ret.T_retenida > 0
    /\ \E f \in FilasRetenidas :
         /\ MismoPunto(f) /\ f.res.Retenidas = 0 /\ f.ret.H_sin_retenida > 0 /\ SinDemanda(f)


(***************************************************************************)
(* equilibrio_poste.equilibrar_poste_retenida applied to one-row tables    *)
(***************************************************************************)
\* guy rows with the columns the equilibrium reads: nodal force, guy tension,
\* guy angle (degrees) and attachment height
FilasEquilibrio ==
    { [ Punto |-> P1, Poste |-> "PC-40", h_amarre |-> h,
        ret |-> [ Punto |-> P1, H_sin_retenida |-> H, T_retenida |-> T,
                  Angulo_retenida |-> ang ] ] :
        H \in {0, 30000, 50000, 120000}, T \in {0, 50000, 70711, 200000},
        ang \in {0, 30, 45, 60, 90, 120}, h \in {DEFAULT_H_AMARRE_M, 1000} }

InitEquilibrar ==
    /\ call \in { [fn |-> "equilibrar_poste_retenida", df |-> d] :
                  d \in { <<f>> : f \in FilasEquilibrio } \cup { <<>> } }
    /\ retval = NoRet
    /\ pc = "call"
    /\ df = <<>>
    /\ cfg = EmptyGeo
    /\ geo = EmptyGeo
    /\ stages = <<>>
    /\ err = ""

Equilibrar ==
    /\ pc = "call"
    /\ call.fn = "equilibrar_poste_retenida"
    /\ retval' = Ok(equilibrar_poste_retenida(call.df))
    /\ pc' = "return"
    /\ UNCHANGED <<df, cfg, geo, stages, err, call>>

NextEquilibrar == Equilibrar

SpecEquilibrar == InitEquilibrar /\ [][NextEquilibrar]_vars

\* the equilibrium rows, each with its input row
Equilibrados ==
    IF pc = "return" /\ call.fn = "equilibrar_poste_retenida"
    THEN { [out |-> retval.val[k], in |-> call.df[k]] : k \in 1..Len(retval.val) }
    ELSE {}

\* T * cos(angle), from the inputs of the row
AporteHorizontal(r) == (r.ret.T_retenida * Cos1e4(r.ret.Angulo_retenida)) \div 10000

\* C11: the residual pole force is max(H - T*cos(angle), 0), never negative,
\* and the real moment is that force times the attachment height
C11_FuerzaResidual ==
    \A e \in Equilibrados :
        LET dif == e.in.ret.H_sin_retenida - AporteHorizontal(e.in)
        IN  /\ e.out.H_poste = (IF dif > 0 THEN dif ELSE 0)
            /\ e.out.H_poste >= 0
            /\ e.out.M_poste_real = (e.out.H_poste * e.in.h_amarre) \div 100

\* a guy whose horizontal component exceeds the nodal force: the pole keeps 0
C11_Witness ==
    \E e \in Equilibrados :
        /\ e.in.ret.H_sin_retenida > 0
        /\ AporteHorizontal(e.in) > e.in.ret.H_sin_retenida
        /\ e.out.H_poste = 0 /\ e.out.M_poste_real = 0


(***************************************************************************)
(* fuerzas_nodo.calcular_fuerzas_en_nodos applied to drawn span tables     *)
(***************************************************************************)
P3 == Etiqueta(3)

P4 == Etiqueta(4)

\* span names: built by calcular_tramos, written with "->", naming a point the
\* summary does not carry, and one that names a single point
NombresTramo ==
    { FormatTramo(P1, P2), FormatTramo(P2, P3), FormatTramo(P2, P4),
      P1 \o <<"-", ">">> \o P2, P1 }

\* rows of the span table with the columns the resolver reads
FilasTramo ==
    { [Tramo |-> t, Distancia |-> L, w_viento_eff |-> w] :
        t \in NombresTramo, L \in {10000, 14142}, w \in {0, 7500} }

TablasTramos == { <<a>> : a \in FilasTramo } \cup { <<a, b>> : a, b \in FilasTramo }

\* the summary: points P1..Pn
ResumenPuntos(n) == [ i \in 1..n |-> [Punto |-> Etiqueta(i)] ]

InitFuerzas ==
    /\ call \in { [ fn |-> "calcular_fuerzas_en_nodos", df_tramos |-> t,
                    df_resumen |-> ResumenPuntos(n), azimut_viento_deg |-> az ] :
                  t \in TablasTramos, n \in 2..MaxPts, az \in {0, 4500, 9000} }
    /\ retval = NoRet
    /\ pc = "call"
    /\ df = <<>>
    /\ cfg = EmptyGeo
    /\ geo = EmptyGeo
    /\ stages = <<>>
    /\ err = ""

Fuerzas ==
    /\ pc = "call"
    /\ call.fn = "calcular_fuerzas_en_nodos"
    /\ retval' = calcular_fuerzas_en_nodos(call.df_tramos, call.df_resumen,
                                           call.azimut_viento_deg)
    /\ pc' = "return"
    /\ UNCHANGED <<df, cfg, geo, stages, err, call>>

NextFuerzas == Fuerzas

SpecFuerzas == InitFuerzas /\ [][NextFuerzas]_vars

FuerzasRetorna == pc = "return" /\ call.fn = "calcular_fuerzas_en_nodos"

\* the span table is the one of the route P1..Pn: span k joins P_k and P_k+1
TramosDeLaRuta ==
    /\ Len(call.df_tramos) = Len(call.df_resumen) - 1
    /\ \A k \in 1..Len(call.df_tramos) :
         call.df_tramos[k].Tramo = FormatTramo(Etiqueta(k), Etiqueta(k + 1))

\* F = w_eff * L of span k, 0 outside the table
FuerzaDeTramo(k) ==
    IF k >= 1 /\ k <= Len(call.df_tramos)
    THEN (call.df_tramos[k].w_viento_eff * call.df_tramos[k].Distancia) \div 10000
    ELSE 0

\* component c of half the force F along the wind direction
MitadSegunViento(F, c) == (F * unit_vector_from_azimut_deg(call.azimut_viento_deg)[c]) \div 20000

\* C12: at point i the force is half of the previous span's F plus half of the
\* next span's F, both along the wind direction (an end point has one span),
\* and H = sqrt(Fx^2 + Fy^2) >= 0
C12_RepartoPorMitades ==
    (FuerzasRetorna /\ TramosDeLaRuta) =>
        /\ retval.ok
        /\ Len(retval.val) = Len(call.df_resumen)
        /\ \A i \in 1..Len(retval.val) :
             LET r == retval.val[i]
             IN  /\ r.Punto = Etiqueta(i)
                 /\ r.Fx = MitadSegunViento(FuerzaDeTramo(i - 1), 1)
                           + MitadSegunViento(FuerzaDeTramo(i), 1)
                 /\ r.Fy = MitadSegunViento(FuerzaDeTramo(i - 1), 2)
                           + MitadSegunViento(FuerzaDeTramo(i), 2)
                 /\ r.H >= 0
                 /\ r.H * r.H <= r.Fx * r.Fx + r.Fy * r.Fy
                 /\ (r.H + 1) * (r.H + 1) > r.Fx * r.Fx + r.Fy * r.Fy

\* a 3-point route with two loaded spans of different length and an oblique
\* wind: the interior point carries both halves
C12_Witness ==
    /\ FuerzasRetorna /\ TramosDeLaRuta /\ retval.ok
    /\ Len(call.df_resumen) = 3
    /\ call.azimut_viento_deg = 4500
    /\ FuerzaDeTramo(1) > 0 /\ FuerzaDeTramo(2) > FuerzaDeTramo(1)
    /\ retval.val[2].Fx > retval.val[1].Fx /\ retval.val[2].Fy > 0
    /\ retval.val[2].H > retval.val[3].H


\* a span whose parsed end label is no point of the summary
ExtremoSinPunto ==
    \E k \in 1..Len(call.df_tramos) :
        LET ab == split_tramo(call.df_tramos[k].Tramo)
        IN  /\ ab.ok
            /\ \E x \in {ab.a, ab.b} :
                 \A i \in 1..Len(call.df_resumen) : call.df_resumen[i].Punto # x

\* C17: the resolver raises when a span end label matches no point of the
\* summary; it returns no table then
C17_ExtremoSinPuntoFalla ==
    (FuerzasRetorna /\ ExtremoSinPunto) => ~retval.ok


(***************************************************************************)
(* cimentacion.evaluar_cimentacion applied to drawn equilibrium tables     *)
(***************************************************************************)
\* rows with the columns the foundation check reads
FilasCimentacion ==
    { [Punto |-> p, H_poste |-> H, h_amarre |-> h] :
        p \in {P1}, H \in {0, 50000, 100000, 100100, 200000},
        h \in {DEFAULT_H_AMARRE_M, 1000} }

TablasCimentacion ==
    { <<>> } \cup { <<a>> : a \in FilasCimentacion }
    \cup { <<a, [b EXCEPT !.Punto = P2]>> : a, b \in FilasCimentacion }

InitCimentar ==
    /\ call \in { [ fn |-> "evaluar_cimentacion", df |-> d,
                    profundidad_empotramiento_m |-> prof, capacidad_suelo_kN |-> cap ] :
                  d \in TablasCimentacion, prof \in {PROFUNDIDAD_EMPOTRAMIENTO, 100, 0},
                  cap \in {CAPACIDAD_SUELO, 250000} }
    /\ retval = NoRet
    /\ pc = "call"
    /\ df = <<>>
    /\ cfg = EmptyGeo
    /\ geo = EmptyGeo
    /\ stages = <<>>
    /\ err = ""

Cimentar ==
    /\ pc = "call"
    /\ call.fn = "evaluar_cimentacion"
    /\ retval' = evaluar_cimentacion(call.df, call.profundidad_empotramiento_m,
                                     call.capacidad_suelo_kN)
    /\ pc' = "return"
    /\ UNCHANGED <<df, cfg, geo, stages, err, call>>

NextCimentar == Cimentar

SpecCimentar == InitCimentar /\ [][NextCimentar]_vars



\* the foundation rows, each with its input row
Cimentados ==
    IF pc = "return" /\ call.fn = "evaluar_cimentacion" /\ retval.ok
    THEN { [out |-> retval.val[k], in |-> call.df[k]] : k \in 1..Len(retval.val) }
    ELSE {}

\* C13: base shear = residual pole force, base moment = shear * height,
\* reaction = moment / depth, and the check is "SI" exactly when the reaction
\* is <= the admissible capacity, "NO" otherwise
C13_Cimentacion ==
    \A c \in Cimentados :
        /\ c.out.V_base = c.in.H_poste
        /\ c.out.M_base = (c.out.V_base * c.in.h_amarre) \div 100
        /\ c.out.R_suelo_eq = (c.out.M_base * 100) \div call.profundidad_empotramiento_m
        /\ c.out.Cumple_cimentacion
             = (IF c.out.R_suelo_eq <= call.capacidad_suelo_kN THEN "SI" ELSE "NO")

\* a reaction equal to the capacity passes, next to a row that fails
C13_Witness ==
    /\ \E c \in Cimentados :
         /\ c.out.R_suelo_eq = call.capacidad_suelo_kN /\ c.out.R_suelo_eq > 0
         /\ c.out.Cumple_cimentacion = "SI"
    /\ \E c \in Cimentados :
         /\ c.out.R_suelo_eq > call.capacidad_suelo_kN
         /\ c.out.Cumple_cimentacion = "NO"


(***************************************************************************)
(* cargas_tramo.calcular_cargas_por_tramo applied to drawn span tables     *)
(***************************************************************************)
\* span rows; the azimuths are those of the displacement vectors of Steps
FilasCarga ==
    { [Tramo |-> FormatTramo(P1, P2), Distancia |-> L, Azimut |-> az] :
        L \in {10000, 14142}, az \in {0, 2657, 4500, 9000, 18000} }

TablasCarga ==
    { <<>> } \cup { <<a>> : a \in FilasCarga }
    \cup { <<a, [b EXCEPT !.Tramo = FormatTramo(P2, P3)]>> : a, b \in FilasCarga }

InitCargas ==
    /\ call \in { [ fn |-> "calcular_cargas_por_tramo", df_tramos |-> t, calibre |-> c,
                    n_fases |-> 3, v_viento_ms |-> v, azimut_viento_deg |-> az,
                    diametro_conductor_m |-> 1134, Cd |-> 12, rho |-> 1225 ] :
                  t \in TablasCarga, c \in {"2/0 ACSR", "XX"}, v \in {-5, 0, 30},
                  az \in {0, 4500, 9000} }
    /\ retval = NoRet
    /\ pc = "call"
    /\ df = <<>>
    /\ cfg = EmptyGeo
    /\ geo = EmptyGeo
    /\ stages = <<>>
    /\ err = ""

Cargas ==
    /\ pc = "call"
    /\ call.fn = "calcular_cargas_por_tramo"
    /\ retval' = calcular_cargas_por_tramo(call.df_tramos, call.calibre, call.n_fases,
                     call.v_viento_ms, call.azimut_viento_deg, call.diametro_conductor_m,
                     call.Cd, call.rho)
    /\ pc' = "return"
    /\ UNCHANGED <<df, cfg, geo, stages, err, call>>

NextCargas == Cargas

SpecCargas == InitCargas /\ [][NextCargas]_vars

\* the rows of a span-load table that was returned
Cargados ==
    IF pc = "return" /\ call.fn = "calcular_cargas_por_tramo" /\ retval.ok
    THEN { retval.val[k] : k \in 1..Len(retval.val) }
    ELSE {}

\* C14: with wind speed 0 the base wind load and the projected wind load of
\* every span are 0, and the resultant load per length equals the weight load
C14_VientoCero ==
    (pc = "return" /\ call.fn = "calcular_cargas_por_tramo" /\ call.v_viento_ms = 0) =>
        \A r \in Cargados :
            /\ r.w_viento = 0
            /\ r.w_viento_eff = 0
            /\ r.w_resultante = r.w_peso

\* no wind, a wind azimuth of 45 degrees and two spans of different azimuth
C14_Witness ==
    /\ pc = "return" /\ call.fn = "calcular_cargas_por_tramo" /\ call.v_viento_ms = 0
    /\ call.azimut_viento_deg = 4500
    /\ Len(retval.val) = 2
    /\ retval.val[1].Azimut = 9000 /\ retval.val[2].Azimut = 2657
    /\ \A r \in Cargados : r.w_peso > 0 /\ r.w_resultante = r.w_peso /\ r.w_viento_eff = 0


(***************************************************************************)
(* Further properties of ejecutar_todo (Spec)                              *)
(***************************************************************************)
\* every span of the input route is the same non-zero displacement
RutaRecta ==
    /\ Len(df) >= 3
    /\ \A i \in 2..Len(df) :
         /\ <<df[i].X - df[i - 1].X, df[i].Y - df[i - 1].Y>> = <<df[2].X - df[1].X, df[2].Y - df[1].Y>>
         /\ <<df[i].X, df[i].Y>> # <<df[i - 1].X, df[i - 1].Y>>

\* C15: a run on a straight route without wind ends with every interior point
\* Paso with 0 guys, both ends Remate, H = 0 at every point and the verdict
\* POSTE SOLO at every interior point
C15_RectaSinViento ==
    (Terminado /\ EntradaValida /\ RutaRecta /\ cfg.v_viento_ms = 0) =>
        /\ pc = "done"
        /\ EsRemate(geo["resumen"][1]) /\ EsRemate(geo["resumen"][Len(df)])
        /\ \A i \in 1..Len(df) : geo["fuerzas_nodo"][i].H = 0
        /\ \A i \in 2..(Len(df) - 1) :
             /\ geo["resumen"][i].Estructura = "Paso" /\ geo["resumen"][i].Retenidas = 0
             /\ geo["decision"][i].Solucion = "POSTE SOLO"


PuntoDe(i) == <<df[i].X, df[i].Y>>

\* the raw deflection at the interior point i of the input route
DeflexionCruda(i) == deflexion_deg(PuntoDe(i - 1), PuntoDe(i), PuntoDe(i + 1))

\* |azimuth out - azimuth in| at the interior point i, before the reduction
DiferenciaAzimut(i) ==
    Abs(azimut_deg(PuntoDe(i), PuntoDe(i + 1)) - azimut_deg(PuntoDe(i), PuntoDe(i - 1)))

\* C16: the raw deflection of every triple of consecutive points is in
\* [0, 180] (the azimuth difference, or 360 minus it when it exceeds 180), and
\* the real deflection |180 - raw| of the tables is in [0, 180] too
C16_DeflexionAcotada ==
    "deflexiones" \in DOMAIN geo =>
        \A i \in 2..(Len(df) - 1) :
            /\ DeflexionCruda(i) >= 0 /\ DeflexionCruda(i) <= 1800000
            /\ DeflexionCruda(i) = (IF DiferenciaAzimut(i) > 1800000
                                    THEN 3600000 - DiferenciaAzimut(i)
                                    ELSE DiferenciaAzimut(i))
            /\ geo["deflexiones"][i - 1].Deflexion >= 0
            /\ geo["deflexiones"][i - 1].Deflexion <= 18000
            /\ geo["resumen"][i].Deflexion = geo["deflexiones"][i - 1].Deflexion

\* an interior point whose azimuth difference is 270 degrees: raw 90, real 90
C16_Witness ==
    /\ "deflexiones" \in DOMAIN geo
    /\ \E i \in 2..(Len(df) - 1) :
         /\ DiferenciaAzimut(i) = 2700000
         /\ DeflexionCruda(i) = 900000
         /\ geo["deflexiones"][i - 1].Deflexion = 9000


\* a span of the input route joins two points with the same coordinates
HayTramoNulo == \E i \in 2..Len(df) : PuntoDe(i) = PuntoDe(i - 1)

\* C18: the geometry stage rejects a route with a zero-length span, and every
\* span of a span table it produced has length > 0
C18_TramoNuloRechazado ==
    /\ (pc # "geometria" /\ HayTramoNulo) => (pc = "error" /\ "tramos" \notin DOMAIN geo)
    /\ "tramos" \in DOMAIN geo =>
         \A k \in 1..Len(geo["tramos"]) : geo["tramos"][k].Distancia > 0

\* a point of the input names a pole type that no pole catalog carries
PosteDesconocido ==
    \E i \in 1..Len(df) : obtener_ficha_poste(df[i].Poste).fuente = "NO_ENCONTRADO"

\* C19: an unknown catalog key aborts the run: no stage after the geometry
\* stores a table computed with a default in place of the unknown key
C19_ClaveDesconocidaAborta ==
    /\ (Terminado /\ cfg.calibre \notin DOMAIN CONDUCTORES_ACSR) => "cargas_tramo" \notin DOMAIN geo
    /\ PosteDesconocido => "nodos" \notin DOMAIN geo

(***************************************************************************)
(* geometria.calcular_tramos applied to drawn point lists                  *)
(***************************************************************************)
\* labels of n points: none (etiquetas=None), P1..Pn, or Pn..P1
EtiquetasDe(n) ==
    { <<>>, [i \in 1..n |-> Etiqueta(i)], [i \in 1..n |-> Etiqueta(n + 1 - i)] }

InitTramos ==
    /\ call \in UNION { { [fn |-> "calcular_tramos", puntos |-> r, etiquetas |-> et] :
                            r \in Rutas(n), et \in EtiquetasDe(n) } : n \in 0..MaxPts }
    /\ retval = NoRet
    /\ pc = "call"
    /\ df = <<>>
    /\ cfg = EmptyGeo
    /\ geo = EmptyGeo
    /\ stages = <<>>
    /\ err = ""

Tramos ==
    /\ pc = "call"
    /\ call.fn = "calcular_tramos"
    /\ retval' = calcular_tramos(call.puntos, call.etiquetas)
    /\ pc' = "return"
    /\ UNCHANGED <<df, cfg, geo, stages, err, call>>

NextTramos == Tramos

SpecTramos == InitTramos /\ [][NextTramos]_vars

TramosRetorna == pc = "return" /\ call.fn = "calcular_tramos"

\* C20: fewer than 2 points raise a ValueError; n >= 2 points give n-1 spans,
\* span i from point i to point i+1 in input order
C20_TramosConsecutivos ==
    TramosRetorna =>
        IF Len(call.puntos) < 2
        THEN ~retval.ok /\ retval.err = "ValueError: se requieren al menos 2 puntos"
        ELSE /\ retval.ok
             /\ Len(retval.val) = Len(call.puntos) - 1
             /\ \A i \in 1..Len(retval.val) :
                  /\ retval.val[i].dX = call.puntos[i + 1][1] - call.puntos[i][1]
                  /\ retval.val[i].dY = call.puntos[i + 1][2] - call.puntos[i][2]
                  /\ call.etiquetas # <<>> =>
                       retval.val[i].Tramo
                         = call.etiquetas[i] \o <<" ", Arrow, " ">> \o call.etiquetas[i + 1]

\* no point and one point raise; this is the one-point call
C20_Witness ==
    /\ TramosRetorna
    /\ Len(call.puntos) = 1
    /\ ~retval.ok

(***************************************************************************)
(* Error handling of the stage functions                                   *)
(***************************************************************************)
\* C21: evaluar_cimentacion raises (returns no table) whenever the embedment
\* depth is <= 0, whatever table it is given
C21_ProfundidadInvalidaFalla ==
    (pc = "return" /\ call.fn = "evaluar_cimentacion" /\ call.profundidad_empotramiento_m <= 0)
        => ~retval.ok

(***************************************************************************)
(* retenidas.calcular_retenidas applied to drawn node tables               *)
(***************************************************************************)
\* node rows with the columns the guy calculator reads
FilasNodo ==
    { [Punto |-> P1, H |-> H, Retenidas_aplican |-> a] :
        H \in {0, 50000, 120000}, a \in BOOLEAN }

TablasNodos ==
    { <<>> } \cup { <<a>> : a \in FilasNodo }
    \cup { <<a, [b EXCEPT !.Punto = P2]>> : a, b \in FilasNodo }

InitRetenidas ==
    /\ call \in { [ fn |-> "calcular_retenidas", df |-> d,
                    params |-> [ cable_retenida |-> "1/4 EHS", FS_retenida |-> 20,
                                 ang_retenida_deg |-> ang ] ] :
                  d \in TablasNodos, ang \in {45, 60, 90, 120} }
    /\ retval = NoRet
    /\ pc = "call"
    /\ df = <<>>
    /\ cfg = EmptyGeo
    /\ geo = EmptyGeo
    /\ stages = <<>>
    /\ err = ""

Retener ==
    /\ pc = "call"
    /\ call.fn = "calcular_retenidas"
    /\ retval' = calcular_retenidas(call.df, call.params)
    /\ pc' = "return"
    /\ UNCHANGED <<df, cfg, geo, stages, err, call>>

NextRetenidas == Retener

SpecRetenidas == InitRetenidas /\ [][NextRetenidas]_vars

RetenidasRetorna == pc = "return" /\ call.fn = "calcular_retenidas"

\* C22: calcular_retenidas raises whenever cos(guy angle) <= 0, whatever
\* table it is given
C22_AnguloInvalidoFalla ==
    (RetenidasRetorna /\ Cos1e4(call.params.ang_retenida_deg) <= 0) => ~retval.ok

(***************************************************************************)
(* io_excel.leer_puntos_excel followed by perfil.analizar_perfil           *)
(***************************************************************************)
\* headers a workbook may carry for the elevation
EncabezadosAltitud ==
    {"Altitud", "ALTITUD", "Altitud (msnm)", "ALTITUD (msnm)", "Altitude", "Altitud (m)"}

\* str(c).strip().upper() on the headers the model draws
norm_col(c) ==
    CASE c = "Punto" -> "PUNTO"
      [] c = "x" -> "X"
      [] c = "Este" -> "ESTE"
      [] c = "y" -> "Y"
      [] c = "Norte" -> "NORTE"
      [] c = "Poste" -> "POSTE"
      [] c = "Espacio Retenida" -> "ESPACIO RETENIDA"
      [] c = "Altitud" -> "ALTITUD"
      [] c = "Altitud (msnm)" -> "ALTITUD (MSNM)"
      [] c = "ALTITUD (msnm)" -> "ALTITUD (MSNM)"
      [] c = "Altitude" -> "ALTITUDE"
      [] c = "Altitud (m)" -> "ALTITUD (M)"
      [] OTHER -> c

\* accepted header -> internal column; the elevation key keeps its lower case
MAPA_COLUMNAS ==
    [ c \in { "PUNTO", "X", "X (M)", "X(M)", "ESTE", "Y", "Y (M)", "Y(M)", "NORTE",
              "ALTITUD (msnm)", "POSTE", "ESPACIO RETENIDA", "ESPACIO PARA RETENIDA",
              "ESPACIO_RETENIDA" } |->
        CASE c = "PUNTO" -> "Punto"
          [] c \in {"X", "X (M)", "X(M)", "ESTE"} -> "X"
          [] c \in {"Y", "Y (M)", "Y(M)", "NORTE"} -> "Y"
          [] c = "ALTITUD (msnm)" -> "Altitud (m)"
          [] c = "POSTE" -> "Poste"
          [] OTHER -> "Espacio Retenida" ]

\* the columns of the table leer_puntos_excel returns for a workbook with the
\* given headers; result [ok, err, val]
leer_puntos_excel(encabezados) ==
    LET cols == { IF norm_col(c) \in DOMAIN MAPA_COLUMNAS
                  THEN MAPA_COLUMNAS[norm_col(c)] ELSE norm_col(c) : c \in encabezados }
    IN  IF ~({"Punto", "X", "Y"} \subseteq cols)
        THEN [ok |-> FALSE, err |-> "ValueError: falta columna obligatoria", val |-> {}]
        ELSE [ok |-> TRUE, err |-> "", val |-> cols \cup {"Poste", "Espacio Retenida"}]

\* workbooks: the required headers in their accepted spellings or absent, the
\* optional ones present or absent, at most one elevation header
Archivos ==
    { {"Punto"} \cup x \cup y \cup alt \cup poste \cup esp :
        x \in { {"X"}, {"x"}, {"Este"}, {} }, y \in { {"Y"}, {"Norte"}, {} },
        alt \in { {} } \cup { {a} : a \in EncabezadosAltitud },
        poste \in { {}, {"Poste"} }, esp \in { {}, {"Espacio Retenida"} } }

InitPerfil ==
    /\ call \in { [fn |-> "leer_puntos_excel", archivo |-> a] : a \in Archivos }
    /\ retval = NoRet
    /\ pc = "call"
    /\ df = <<>>
    /\ cfg = EmptyGeo
    /\ geo = EmptyGeo
    /\ stages = <<>>
    /\ err = ""

\* df = leer_puntos_excel(archivo)
LeerPuntos ==
    /\ pc = "call"
    /\ call.fn = "leer_puntos_excel"
    /\ retval' = leer_puntos_excel(call.archivo)
    /\ pc' = IF retval'.ok THEN "perfil" ELSE "return"
    /\ UNCHANGED <<df, cfg, geo, stages, err, call>>

\* geo["perfil"] = analizar_perfil(df, ...) on the table just read
AnalizarPerfil ==
    /\ pc = "perfil"
    /\ call.fn = "leer_puntos_excel"
    /\ geo' = ("perfil" :> analizar_perfil(retval.val))
    /\ pc' = "return"
    /\ UNCHANGED <<df, cfg, stages, err, call, retval>>

NextPerfil == LeerPuntos \/ AnalizarPerfil

SpecPerfil == InitPerfil /\ [][NextPerfil]_vars

\* C23: the profile is computed exactly when the workbook read by
\* leer_puntos_excel has an elevation column, and is None (skipped, no error)
\* when it has none
C23_PerfilSiHayAltitud ==
    (pc = "return" /\ call.fn = "leer_puntos_excel" /\ retval.ok) =>
        ((geo["perfil"] # None) <=> (call.archivo \cap EncabezadosAltitud # {}))

(***************************************************************************)
(* The stage functions on table objects: which object each one reads,      *)
(* copies, writes and returns.  A heap is a sequence of objects            *)
(* [none, cols, vacia]; a reference is an index into it.                   *)
(***************************************************************************)
Objeto(cols, vacia) == [none |-> FALSE, cols |-> cols, vacia |-> vacia]

ObjetoNone == [none |-> TRUE, cols |-> {}, vacia |-> TRUE]

\* `df is None or df.empty`
es_vacio(h, id) == h[id].none \/ h[id].vacia

\* mutant of copy: the "copy" is the object itself
copy_alias(h, id) == [heap |-> h, id |-> id]

\* df.copy(): a new object with the same content
copy(h, id) == [heap |-> Append(h, h[id]), id |-> Len(h) + 1]

\* pd.DataFrame(...), a.merge(b), out[cols]: a new object
DataFrame(h, cols, vacia) == [heap |-> Append(h, Objeto(cols, vacia)), id |-> Len(h) + 1]

\* out[c] = ... for every c of cs: writes into the object
setitem(h, id, cs) == [h EXCEPT ![id].cols = @ \cup cs]

Raise(h, e) == [heap |-> h, ok |-> FALSE, err |-> e, val |-> <<>>]

Return(h, id) == [heap |-> h, ok |-> TRUE, err |-> "", val |-> <<id>>]

\* engine._calcular_deflexion_real
calcular_deflexion_real_refs(h, df_def) ==
    IF es_vacio(h, df_def) \/ "Deflexion" \notin h[df_def].cols THEN Return(h, df_def)
    ELSE LET out == copy(h, df_def)
         IN  Return(setitem(out.heap, out.id, {"Deflexion", "Estructura", "Retenidas"}), out.id)

\* engine._armar_resumen
armar_resumen_refs(h, d, df_def) ==
    IF h[d].none \/ ~({"Punto", "Poste", "Espacio Retenida"} \subseteq h[d].cols)
    THEN Raise(h, "KeyError")
    ELSE LET resumen == DataFrame(h, {"Punto", "Poste", "Espacio Retenida"}, h[d].vacia)
         IN  Return(setitem(resumen.heap, resumen.id, {"Deflexion", "Estructura", "Retenidas"}),
                    resumen.id)

\* cargas_tramo.calcular_cargas_por_tramo with a known gauge and v >= 0
calcular_cargas_por_tramo_refs(h, df_tramos) ==
    IF es_vacio(h, df_tramos)
    THEN LET e == DataFrame(h, {}, TRUE) IN Return(e.heap, e.id)
    ELSE LET out == copy(h, df_tramos)
         IN  IF ~({"Tramo", "Azimut", "Distancia"} \subseteq out.heap[out.id].cols)
             THEN Raise(out.heap, "ValueError: df_tramos debe incluir columna")
             ELSE LET h2  == setitem(out.heap, out.id,
                                {"w_peso", "w_viento", "w_viento_eff", "w_resultante",
                                 "W_resultante_tramo", "Modelo viento"})
                      res == DataFrame(h2, h2[out.id].cols, FALSE)
                  IN  Return(res.heap, res.id)

\* fuerzas_nodo.calcular_fuerzas_en_nodos with usar_col_w = w_viento_eff
calcular_fuerzas_en_nodos_refs(h, df_tramos, df_resumen) ==
    IF es_vacio(h, df_tramos) THEN Raise(h, "ValueError: df_tramos vacio o None")
    ELSE IF ~({"Tramo", "Distancia", "w_viento_eff"} \subseteq h[df_tramos].cols)
    THEN Raise(h, "ValueError: df_tramos debe incluir columna")
    ELSE IF es_vacio(h, df_resumen) THEN Raise(h, "ValueError: df_resumen vacio o None")
    ELSE IF "Punto" \notin h[df_resumen].cols
    THEN Raise(h, "ValueError: df_resumen debe incluir columna 'Punto'")
    ELSE LET tr  == copy(h, df_tramos)
             h2  == setitem(tr.heap, tr.id, {"_A", "_B"})
             res == DataFrame(h2, {"Punto", "Fx", "Fy", "H"}, FALSE)
         IN  Return(res.heap, res.id)

\* retenidas.calcular_retenidas as engine._calcular_retenidas calls it
calcular_retenidas_refs(h, d) ==
    IF es_vacio(h, d)
    THEN LET e == DataFrame(h, {}, TRUE) IN Return(e.heap, e.id)
    ELSE LET out == copy(h, d)
         IN  IF ~({"Punto", "H"} \subseteq out.heap[out.id].cols)
             THEN Raise(out.heap, "ValueError: Falta columna requerida")
             ELSE IF "Retenidas_aplican" \notin out.heap[out.id].cols
             THEN Raise(out.heap, "ValueError: aplicar_si_col no existe en df")
             ELSE LET cs  == {"H_sin_retenida", "T_retenida", "H_aporte_ret", "V_retenida",
                              "H_poste_con_ret", "T_admisible_retenida", "Utilizacion",
                              "Cumple retenida", "Angulo retenida", "FS retenida",
                              "Cable retenida"}
                      h2  == setitem(out.heap, out.id, cs)
                      res == DataFrame(h2, {"Punto"} \cup cs, FALSE)
                  IN  Return(res.heap, res.id)

\* equilibrio_poste.equilibrar_poste_retenida with col_H_nodo = H_sin_retenida
equilibrar_poste_retenida_refs(h, d) ==
    IF es_vacio(h, d)
    THEN LET e == DataFrame(h, {}, TRUE) IN Return(e.heap, e.id)
    ELSE LET out == copy(h, d)
         IN  IF ~({"H_sin_retenida", "h_amarre"} \subseteq out.heap[out.id].cols)
             THEN Raise(out.heap, "ValueError: Falta columna requerida")
             ELSE Return(setitem(out.heap, out.id, {"H_retenida", "H_poste", "M_poste_real"}),
                         out.id)

\* cimentacion.evaluar_cimentacion with a depth > 0
evaluar_cimentacion_refs(h, d) ==
    IF es_vacio(h, d)
    THEN LET e == DataFrame(h, {}, TRUE) IN Return(e.heap, e.id)
    ELSE LET out == copy(h, d)
         IN  IF ~({"H_poste", "h_amarre"} \subseteq out.heap[out.id].cols)
             THEN Raise(out.heap, "ValueError: Falta columna requerida")
             ELSE Return(setitem(out.heap, out.id,
                            {"V_base", "M_base", "R_suelo_eq", "Capacidad_suelo",
                             "Profundidad_empotramiento", "Cumple cimentacion"}),
                         out.id)

\* momento_poste.calcular_momento_poste with col_H = H_poste
calcular_momento_poste_refs(h, df_fuerzas_nodo, df_resumen) ==
    IF es_vacio(h, df_fuerzas_nodo) THEN Raise(h, "ValueError: df_fuerzas_nodo vacio o None")
    ELSE IF ~({"Punto", "H_poste"} \subseteq h[df_fuerzas_nodo].cols)
    THEN Raise(h, "ValueError: df_fuerzas_nodo debe incluir")
    ELSE LET out == copy(h, df_fuerzas_nodo)
             h1  == setitem(out.heap, out.id, {"Punto"})
             mer == IF ~es_vacio(h1, df_resumen) /\ "Punto" \in h1[df_resumen].cols
                    THEN LET aux == DataFrame(h1, h1[df_resumen].cols \cap {"Punto", "Poste"}, FALSE)
                             h2  == setitem(aux.heap, aux.id, {"Punto"})
                         IN  DataFrame(h2, h2[out.id].cols \cup h2[aux.id].cols, FALSE)
                    ELSE [heap |-> h1, id |-> out.id]
             h3  == setitem(mer.heap, mer.id, {"H_poste", "h_amarre", "M_base"})
             res == DataFrame(h3, h3[mer.id].cols \cap {"Punto", "Poste", "H_poste", "h_amarre", "M_base"}, FALSE)
         IN  Return(res.heap, res.id)

\* decision_soporte.decidir_soporte
decidir_soporte_refs(h, df_resumen, df_fuerzas_nodo, df_momento_poste) ==
    IF es_vacio(h, df_resumen) THEN Raise(h, "ValueError: df_resumen vacio")
    ELSE IF es_vacio(h, df_fuerzas_nodo) THEN Raise(h, "ValueError: df_fuerzas_nodo vacio")
    ELSE IF "Punto" \notin h[df_resumen].cols \/ "Punto" \notin h[df_fuerzas_nodo].cols
    THEN Raise(h, "ValueError: Ambos DataFrames deben tener columna 'Punto'")
    ELSE IF ~({"H", "Fx", "Fy"} \subseteq h[df_fuerzas_nodo].cols) THEN Raise(h, "KeyError")
    ELSE LET sel == DataFrame(h, {"Punto", "H", "Fx", "Fy"}, FALSE)
             m1  == DataFrame(sel.heap, h[df_resumen].cols \cup {"H", "Fx", "Fy"}, FALSE)
             m2  == IF ~es_vacio(m1.heap, df_momento_poste)
                       /\ "Punto" \in m1.heap[df_momento_poste].cols
                    THEN DataFrame(m1.heap,
                            m1.heap[m1.id].cols
                              \cup (m1.heap[df_momento_poste].cols \cap {"h_amarre", "M_poste"}),
                            FALSE)
                    ELSE m1
         IN  IF ~({"Poste", "Espacio Retenida", "Retenidas"} \subseteq m2.heap[m2.id].cols)
             THEN Raise(m2.heap, "ValueError: df_resumen debe incluir columna")
             ELSE LET h2  == setitem(m2.heap, m2.id,
                                {"H_cap", "Utilizacion poste", "Cumple poste", "Solucion", "Motivo"})
                      res == DataFrame(h2, h2[m2.id].cols, FALSE)
                  IN  Return(res.heap, res.id)

\* the columns of the tables the engine hands to each stage function
ColsEntrada == {"Punto", "X", "Y", "Poste", "Espacio Retenida"}

ColsDeflexiones == {"Punto", "Deflexion"}

ColsResumen == {"Punto", "Poste", "Espacio Retenida", "Deflexion", "Estructura", "Retenidas"}

ColsTramos == {"Tramo", "dX", "dY", "Distancia", "Acumulado", "Azimut"}

ColsCargas ==
    ColsTramos \cup {"w_peso", "w_viento", "w_viento_eff", "w_resultante",
                     "W_resultante_tramo", "Modelo viento"}

ColsFuerzas == {"Punto", "Fx", "Fy", "H"}

ColsNodos ==
    {"Punto", "Poste", "Espacio Retenida", "Retenidas", "Fx", "Fy", "H", "h_amarre",
     "Retenidas_aplican"}

ColsRetenidas ==
    {"Punto", "H_sin_retenida", "T_retenida", "H_aporte_ret", "V_retenida", "H_poste_con_ret",
     "T_admisible_retenida", "Utilizacion", "Cumple retenida", "Angulo retenida",
     "FS retenida", "Cable retenida", "Poste", "h_amarre"}

ColsEquilibrio == ColsRetenidas \cup {"H_retenida", "H_poste", "M_poste_real"}

ColsMomento == {"Punto", "Poste", "H_poste", "h_amarre", "M_base"}

\* per stage function, its table parameters: the columns the engine passes,
\* one column the function requires, and whether the parameter is required
Firma(fn) ==
    CASE fn = "_calcular_deflexion_real" ->
           << [cols |-> ColsDeflexiones, col |-> "Deflexion", req |-> TRUE] >>
      [] fn = "_armar_resumen" ->
           << [cols |-> ColsEntrada, col |-> "Poste", req |-> TRUE],
              [cols |-> ColsDeflexiones \cup {"Estructura", "Retenidas"}, col |-> "Punto", req |-> FALSE] >>
      [] fn = "calcular_cargas_por_tramo" ->
           << [cols |-> ColsTramos, col |-> "Azimut", req |-> TRUE] >>
      [] fn = "calcular_fuerzas_en_nodos" ->
           << [cols |-> ColsCargas, col |-> "w_viento_eff", req |-> TRUE],
              [cols |-> ColsResumen, col |-> "Punto", req |-> TRUE] >>
      [] fn = "calcular_retenidas" ->
           << [cols |-> ColsNodos, col |-> "H", req |-> TRUE] >>
      [] fn = "equilibrar_poste_retenida" ->
           << [cols |-> ColsRetenidas, col |-> "h_amarre", req |-> TRUE] >>
      [] fn = "evaluar_cimentacion" ->
           << [cols |-> ColsEquilibrio, col |-> "H_poste", req |-> TRUE] >>
      [] fn = "calcular_momento_poste" ->
           << [cols |-> ColsEquilibrio, col |-> "H_poste", req |-> TRUE],
              [cols |-> ColsResumen, col |-> "Punto", req |-> FALSE] >>
      [] fn = "decidir_soporte" ->
           << [cols |-> ColsResumen, col |-> "Retenidas", req |-> TRUE],
              [cols |-> ColsFuerzas, col |-> "H", req |-> TRUE],
              [cols |-> ColsMomento, col |-> "Punto", req |-> FALSE] >>

Etapas ==
    { "_calcular_deflexion_real", "_armar_resumen", "calcular_cargas_por_tramo",
      "calcular_fuerzas_en_nodos", "calcular_retenidas", "equilibrar_poste_retenida",
      "evaluar_cimentacion", "calcular_momento_poste", "decidir_soporte" }

\* what a caller may pass for a parameter: None, an empty table, the table
\* the engine passes, or that table without the required column
Variantes(p) ==
    { ObjetoNone, Objeto(p.cols, TRUE), Objeto(p.cols, FALSE), Objeto(p.cols \ {p.col}, FALSE) }

Heaps(fn) ==
    { hp \in [ 1..Len(Firma(fn)) -> UNION { Variantes(Firma(fn)[i]) : i \in 1..Len(Firma(fn)) } ] :
        \A i \in 1..Len(Firma(fn)) : hp[i] \in Variantes(Firma(fn)[i]) }

Aplicar(fn, h) ==
    CASE fn = "_calcular_deflexion_real" -> calcular_deflexion_real_refs(h, 1)
      [] fn = "_armar_resumen" -> armar_resumen_refs(h, 1, 2)
      [] fn = "calcular_cargas_por_tramo" -> calcular_cargas_por_tramo_refs(h, 1)
      [] fn = "calcular_fuerzas_en_nodos" -> calcular_fuerzas_en_nodos_refs(h, 1, 2)
      [] fn = "calcular_retenidas" -> calcular_retenidas_refs(h, 1)
      [] fn = "equilibrar_poste_retenida" -> equilibrar_poste_retenida_refs(h, 1)
      [] fn = "evaluar_cimentacion" -> evaluar_cimentacion_refs(h, 1)
      [] fn = "calcular_momento_poste" -> calcular_momento_poste_refs(h, 1, 2)
      [] fn = "decidir_soporte" -> decidir_soporte_refs(h, 1, 2, 3)

\* geo holds the heap; call.heap keeps the heap as it was at the call
InitEtapas ==
    /\ call \in UNION { { [fn |-> f, heap |-> hp] : hp \in Heaps(f) } : f \in Etapas }
    /\ geo = call.heap
    /\ retval = NoRet
    /\ pc = "call"
    /\ df = <<>>
    /\ cfg = EmptyGeo
    /\ stages = <<>>
    /\ err = ""

Etapa ==
    /\ pc = "call"
    /\ call.fn \in Etapas
    /\ LET r == Aplicar(call.fn, geo)
       IN  /\ geo' = r.heap
           /\ retval' = [ok |-> r.ok, err |-> r.err, val |-> r.val]
    /\ pc' = "return"
    /\ UNCHANGED <<df, cfg, stages, err, call>>

NextEtapas == Etapa

SpecEtapas == InitEtapas /\ [][NextEtapas]_vars

EtapaRetorna == pc = "return" /\ call.fn \in Etapas

\* every object the caller held is as it was at the call
EntradasIntactas == \A i \in 1..Len(call.heap) : geo[i] = call.heap[i]

\* the function returned one of the objects it was given
DevuelveEntrada == retval.ok /\ retval.val[1] <= Len(call.heap)

\* C24 as stated: after any stage function returns, every input table is
\* unchanged and the result is a new table
C24_SinMutacionYNueva ==
    EtapaRetorna => (EntradasIntactas /\ ~DevuelveEntrada)

\* C24: no stage function changes a table it receives, and the result is a
\* new table except where the deflection transform hands back a None, empty
\* or deflection-less input as it is
C24_SinMutacion ==
    EtapaRetorna =>
        /\ EntradasIntactas
        /\ DevuelveEntrada <=>
             /\ call.fn = "_calcular_deflexion_real"
             /\ (es_vacio(call.heap, 1) \/ "Deflexion" \notin call.heap[1].cols)

\* the equilibrium wrote its three columns into a copy: the result is a new
\* object with more columns than the input, which is untouched
C24_Witness ==
    /\ EtapaRetorna
    /\ call.fn = "equilibrar_poste_retenida"
    /\ retval.ok
    /\ retval.val[1] > Len(call.heap)
    /\ geo[1] = call.heap[1]
    /\ call.heap[1].cols \subseteq geo[retval.val[1]].cols
    /\ "H_poste" \in geo[retval.val[1]].cols \ call.heap[1].cols

\* a required table parameter is None, empty or lacks its required column
EntradaInvalida ==
    \E i \in 1..Len(call.heap) :
        /\ Firma(call.fn)[i].req
        /\ (es_vacio(call.heap, i) \/ Firma(call.fn)[i].col \notin call.heap[i].cols)

\* C26: span loads, nodal forces, guy demand, equilibrium, foundation and
\* decision raise an error when a required table is None, empty or lacks a
\* required column
C26_EntradaInvalidaFalla ==
    ( /\ EtapaRetorna
      /\ call.fn \in { "calcular_cargas_por_tramo", "calcular_fuerzas_en_nodos",
                       "calcular_retenidas", "equilibrar_poste_retenida",
                       "evaluar_cimentacion", "decidir_soporte" }
      /\ EntradaInvalida ) => ~retval.ok

(***************************************************************************)
(* app.main: read the workbook, run ejecutar_todo, render                  *)
(***************************************************************************)
\* the rows of the workbooks the interactive run is given
FilasArchivo == { e \in Entradas : \A i \in 1..Len(e) : e[i].Poste = "PC-40" }

ArchivosApp ==
    { [none |-> TRUE, encabezados |-> {}, filas |-> <<>>] }
    \cup { [none |-> FALSE, encabezados |-> enc, filas |-> f] :
             enc \in { {"Punto", "X", "Y", "Poste", "Espacio Retenida"}, {"Punto", "Y", "Poste"} },
             f \in FilasArchivo }

\* mutant of render: the tabs and KPIs are rendered whatever the outcome
render_siempre(estado, e) ==
    IF estado = "done" THEN [ok |-> TRUE, err |-> "", val |-> <<"tabs", "kpis">>]
    ELSE [ok |-> FALSE, err |-> e, val |-> <<"tabs", "kpis", "st.error", "st.exception">>]

\* the tail of main's try/except: mostrar_tabs_resultados and mostrar_kpis
\* after ejecutar_calculo returned, st.error and st.exception(e) otherwise;
\* val lists what is on the page
render(estado, e) ==
    IF estado = "done" THEN [ok |-> TRUE, err |-> "", val |-> <<"tabs", "kpis">>]
    ELSE [ok |-> FALSE, err |-> e, val |-> <<"st.error", "st.exception">>]

InitApp ==
    /\ call \in { [fn |-> "main", archivo |-> a] : a \in ArchivosApp }
    /\ cfg \in Configs
    /\ pc = "leer"
    /\ df = <<>>
    /\ geo = EmptyGeo
    /\ stages = <<>>
    /\ err = ""
    /\ retval = NoRet

\* archivo = ui_cargar_excel(); if not archivo: st.stop();
\* df = leer_puntos_excel(archivo)
AppLeer ==
    /\ pc = "leer"
    /\ call.fn = "main"
    /\ IF call.archivo.none
       THEN /\ pc' = "stop"
            /\ UNCHANGED <<df, cfg, err>>
       ELSE LET r == leer_puntos_excel(call.archivo.encabezados)
            IN  IF r.ok
                THEN /\ df' = call.archivo.filas
                     /\ cfg' = [cfg EXCEPT !.cols = r.val]
                     /\ pc' = "geometria"
                     /\ UNCHANGED err
                ELSE /\ pc' = "error"
                     /\ err' = r.err
                     /\ UNCHANGED <<df, cfg>>
    /\ UNCHANGED <<geo, stages, call, retval>>

\* mostrar_tabs_resultados(df, res); mostrar_kpis(res) / except Exception
AppMostrar ==
    /\ pc \in {"done", "error"}
    /\ call.fn = "main"
    /\ retval' = render(pc, err)
    /\ pc' = "fin"
    /\ UNCHANGED <<df, cfg, geo, stages, err, call>>

NextApp ==
    \/ AppLeer
    \/ Geometria
    \/ CargasTramo
    \/ FuerzasNodo
    \/ Nodos
    \/ Retenidas
    \/ Equilibrio
    \/ Cimentacion
    \/ MomentoPoste
    \/ Decision
    \/ AppMostrar

SpecApp == InitApp /\ [][NextApp]_vars

\* what main has put on the page
EnPantalla == { retval.val[i] : i \in 1..Len(retval.val) }

\* C25: tabs and KPIs are on the page only after every stage completed; when
\* reading or a stage failed, the page holds the error with its cause and
\* nothing else
C25_SinResultadoParcial ==
    /\ (EnPantalla \cap {"tabs", "kpis"} # {}) =>
          /\ err = ""
          /\ SubSeqDe(OrdenEtapas, stages)
          /\ {"tramos", "resumen", "cargas_tramo", "fuerzas_nodo", "nodos", "retenidas",
              "equilibrio", "cimentacion", "momento_poste", "decision", "perfil"}
                \subseteq DOMAIN geo
    /\ (pc = "fin" /\ err # "") =>
          (EnPantalla = {"st.error", "st.exception"} /\ retval.err = err)

\* a stage after the geometry failed: tables of the run exist, the page holds
\* only the error
C25_Witness ==
    /\ pc = "fin"
    /\ err # ""
    /\ "tramos" \in DOMAIN geo
    /\ EnPantalla = {"st.error", "st.exception"}

(***************************************************************************)
(* exportacion_excel.exportar_resultados_excel, one step per statement of  *)
(* the `with pd.ExcelWriter(...) as writer` block                          *)
(***************************************************************************)
\* the keys of `resultados` the export reads, in the order it writes them
ClavesExport == <<"tramos", "deflexiones", "resumen", "cargas_tramo", "fuerzas_nodo", "decision">>

\* the sheet written first, then one sheet per key
HojasExport ==
    <<"Entrada", "Tramos", "Deflexiones", "Resumen_por_punto", "Cargas_por_tramo",
      "Fuerzas_por_poste", "Decision_soporte">>

\* mutant of with_exit: the writer is closed only when the block ran to its end
exit_sin_finally(writer, fallo) == IF fallo THEN writer ELSE "closed"

\* __exit__ of the with statement: runs on normal completion and on an
\* exception alike, and closes the writer that was opened
with_exit(writer, fallo) == IF writer = "open" THEN "closed" ELSE writer

\* resultados maps each key to "absent", "tabla" or "None"; falla names the
\* point where the file system refuses ("ninguna" for no failure)
InitExportar ==
    /\ call \in { [fn |-> "exportar_resultados_excel", resultados |-> res, falla |-> f] :
                  res \in [ {ClavesExport[i] : i \in 1..Len(ClavesExport)}
                              -> {"absent", "tabla", "None"} ],
                  f \in {"ninguna", "abrir", "Entrada", "Fuerzas_por_poste"} }
    /\ geo = [writer |-> "none", hojas |-> <<>>, k |-> 0]
    /\ pc = "abrir"
    /\ retval = NoRet
    /\ df = <<>>
    /\ cfg = EmptyGeo
    /\ stages = <<>>
    /\ err = ""

\* pd.ExcelWriter(ruta_salida, engine="openpyxl")
ExportAbrir ==
    /\ pc = "abrir"
    /\ call.fn = "exportar_resultados_excel"
    /\ IF call.falla = "abrir"
       THEN /\ err' = "OSError"
            /\ retval' = [ok |-> FALSE, err |-> "OSError", val |-> <<>>]
            /\ pc' = "return"
            /\ UNCHANGED geo
       ELSE /\ geo' = [geo EXCEPT !.writer = "open", !.k = 1]
            /\ pc' = "hoja"
            /\ UNCHANGED <<err, retval>>
    /\ UNCHANGED <<df, cfg, stages, call>>

\* the k-th to_excel of the block, guarded by its `if`
ExportHoja ==
    /\ pc = "hoja"
    /\ call.fn = "exportar_resultados_excel"
    /\ LET hoja  == HojasExport[geo.k]
           valor == IF geo.k = 1 THEN "tabla" ELSE call.resultados[ClavesExport[geo.k - 1]]
           salta == \/ valor = "absent"
                    \/ (hoja = "Deflexiones" /\ valor = "None")
           e     == IF valor = "None" THEN "AttributeError"
                    ELSE IF call.falla = hoja THEN "OSError" ELSE ""
       IN  IF ~salta /\ e # ""
           THEN /\ err' = e
                /\ pc' = "exit"
                /\ UNCHANGED geo
           ELSE /\ geo' = [geo EXCEPT !.hojas = IF salta THEN @ ELSE Append(@, hoja),
                                      !.k = @ + 1]
                /\ pc' = IF geo.k = Len(HojasExport) THEN "exit" ELSE "hoja"
                /\ UNCHANGED err
    /\ UNCHANGED <<df, cfg, stages, call, retval>>

\* leaving the with block, then returning or propagating the exception
ExportSalir ==
    /\ pc = "exit"
    /\ call.fn = "exportar_resultados_excel"
    /\ geo' = [geo EXCEPT !.writer = with_exit(geo.writer, err # "")]
    /\ retval' = [ok |-> err = "", err |-> err, val |-> geo.hojas]
    /\ pc' = "return"
    /\ UNCHANGED <<df, cfg, stages, err, call>>

NextExportar == ExportAbrir \/ ExportHoja \/ ExportSalir

SpecExportar == InitExportar /\ [][NextExportar]_vars

\* C27: once exportar_resultados_excel has returned or failed, the writer it
\* opened for the output file is closed
C27_WriterCerrado ==
    (pc = "return" /\ call.fn = "exportar_resultados_excel") => geo.writer # "open"

\* a sheet after the first failed to write: the export failed with sheets
\* already written, and the writer is closed
C27_Witness ==
    /\ pc = "return"
    /\ call.fn = "exportar_resultados_excel"
    /\ ~retval.ok
    /\ Len(geo.hojas) >= 1
    /\ geo.writer = "closed"

(***************************************************************************)
(* The summary of ejecutar_fase_geometria, the guy demand and              *)
(* decidir_soporte(df_resumen, df_fuerzas_nodo) on drawn routes and forces *)
(***************************************************************************)
\* straight on, 45 degrees and 90 degrees
PasosSoporte == { <<100, 0>>, <<100, 100>>, <<0, 100>> }

RECURSIVE RutasSoporte(_)
RutasSoporte(n) ==
    IF n = 1 THEN { << <<0, 0>> >> }
    ELSE { Append(r, <<r[Len(r)][1] + st[1], r[Len(r)][2] + st[2]>>) :
             r \in RutasSoporte(n - 1), st \in PasosSoporte }

\* nodal forces below the pole capacity, above it with a guy within its
\* capacity, and above both
FuerzasSoporte == {50000, 80000, 120000}

InitSoporte ==
    /\ \E n \in 2..MaxPts :
         \E r \in RutasSoporte(n), esp \in [1..n -> {"SI", "NO"}],
            poste \in {"PC-40"}, H \in [1..n -> FuerzasSoporte] :
             call = [ fn |-> "soporte",
                      df |-> [ i \in 1..n |-> [ Punto |-> Etiqueta(i), X |-> r[i][1],
                                                Y |-> r[i][2], Poste |-> poste,
                                                Espacio |-> esp[i] ] ],
                      fuerzas |-> [ i \in 1..n |-> [ Punto |-> Etiqueta(i), Fx |-> H[i],
                                                     Fy |-> 0, H |-> H[i] ] ] ]
    /\ retval = NoRet
    /\ pc = "call"
    /\ df = <<>>
    /\ cfg = EmptyGeo
    /\ geo = EmptyGeo
    /\ stages = <<>>
    /\ err = ""

\* resumen = ejecutar_fase_geometria(df)["resumen"]; the guy demand on the
\* node table; decidir_soporte(resumen, fuerzas)
Soportar ==
    /\ pc = "call"
    /\ call.fn = "soporte"
    /\ LET g   == ejecutar_fase_geometria(call.df, BaseCols)
           ret == engine_calcular_retenidas(armar_df_nodos(g.resumen, call.fuerzas), "2/0 ACSR")
           dec == decidir_soporte(ResumenDecision(g.resumen),
                                  Tabla({"Punto", "Fx", "Fy", "H"}, call.fuerzas), NoneTable, 20)
       IN  /\ geo' = ( "resumen" :> g.resumen @@ "retenidas" :> ret.val @@ "decision" :> dec.val )
           /\ retval' = [ok |-> g.ok /\ ret.ok /\ dec.ok, err |-> "", val |-> dec.val]
    /\ pc' = "return"
    /\ UNCHANGED <<df, cfg, stages, err, call>>

NextSoporte == Soportar

SpecSoporte == InitSoporte /\ [][NextSoporte]_vars

\* the points of a decided route: the verdict row with the guy row of the
\* same point and its position
Soportados ==
    IF pc = "return" /\ call.fn = "soporte" /\ retval.ok
    THEN { [ i |-> i, dec |-> geo["decision"][i], ret |-> geo["retenidas"][i] ] :
             i \in 1..Len(geo["decision"]) }
    ELSE {}

\* C28: two points that agree on required guys, guy space and pole check get
\* the same verdict whatever their guy checks say, and a point with required
\* guys and space is RETENIDA even when its guy is over capacity
C28_VeredictoSinRetenida ==
    /\ \A a, b \in Soportados :
         ( /\ a.dec.Retenidas = b.dec.Retenidas
           /\ si_no(a.dec.Espacio) = si_no(b.dec.Espacio)
           /\ a.dec.Cumple_poste = b.dec.Cumple_poste ) => a.dec.Solucion = b.dec.Solucion
    /\ \A a \in Soportados :
         ( /\ a.dec.Retenidas > 0
           /\ si_no(a.dec.Espacio) = "SI"
           /\ a.ret.Cumple_retenida = "NO" ) => a.dec.Solucion = "RETENIDA"

\* two guyed points of one route, one guy within its capacity and one over
\* it, both RETENIDA
C28_Witness ==
    \E a, b \in Soportados :
        /\ a.dec.Retenidas = b.dec.Retenidas
        /\ a.dec.Cumple_poste = b.dec.Cumple_poste
        /\ a.ret.Cumple_retenida = "SI" /\ a.ret.T_retenida <= a.ret.T_admisible_retenida
        /\ b.ret.Cumple_retenida = "NO" /\ b.ret.T_retenida > b.ret.T_admisible_retenida
        /\ a.dec.Solucion = "RETENIDA" /\ b.dec.Solucion = "RETENIDA"

\* the first and the last point of the decided route
ExtremosSoportados == { a \in Soportados : a.i = 1 \/ a.i = Len(geo["decision"]) }

\* C29: the first and the last point of a route are never POSTE SOLO: they
\* are RETENIDA with guy space and AUTOSOPORTADO without, whatever the force
\* and the pole capacity
C29_ExtremosNuncaPosteSolo ==
    \A a \in ExtremosSoportados :
        /\ a.dec.Retenidas = 1
        /\ a.dec.Solucion # "POSTE SOLO"
        /\ a.dec.Solucion = (IF si_no(a.dec.Espacio) = "SI" THEN "RETENIDA" ELSE "AUTOSOPORTADO")

\* an end point whose pole check passes and that has no guy space, next to an
\* interior point of the same route that stands alone
C29_Witness ==
    /\ \E a \in ExtremosSoportados :
         /\ a.dec.Cumple_poste = "SI"
         /\ si_no(a.dec.Espacio) = "NO"
         /\ a.dec.Solucion = "AUTOSOPORTADO"
    /\ \E a \in ExtremosSoportados : a.dec.Solucion = "RETENIDA"
    /\ \E a \in Soportados \ ExtremosSoportados : a.dec.Solucion = "POSTE SOLO"

(***************************************************************************)
(* Conservation in calcular_fuerzas_en_nodos (SpecFuerzas)                 *)
(***************************************************************************)
\* every span name parses into two labels of the summary
ExtremosEnResumen ==
    \A k \in 1..Len(call.df_tramos) :
        LET ab == split_tramo(call.df_tramos[k].Tramo)
        IN  /\ ab.ok
            /\ \E i \in 1..Len(call.df_resumen) : call.df_resumen[i].Punto = ab.a
            /\ \E i \in 1..Len(call.df_resumen) : call.df_resumen[i].Punto = ab.b

\* sum of component c (1: Fx, 2: Fy) over the rows k.. of the output
RECURSIVE SumaNodos(_, _)
SumaNodos(c, k) ==
    IF k > Len(retval.val) THEN 0
    ELSE (IF c = 1 THEN retval.val[k].Fx ELSE retval.val[k].Fy) + SumaNodos(c, k + 1)

\* sum over the spans k.. of the two halves of F * u_viento, component c
RECURSIVE SumaTramos(_, _)
SumaTramos(c, k) ==
    IF k > Len(call.df_tramos) THEN 0
    ELSE 2 * MitadSegunViento(FuerzaDeTramo(k), c) + SumaTramos(c, k + 1)

\* sum over the spans k.. of the whole force F * u_viento, component c
RECURSIVE SumaFuerzas(_, _)
SumaFuerzas(c, k) ==
    IF k > Len(call.df_tramos) THEN 0
    ELSE (FuerzaDeTramo(k) * unit_vector_from_azimut_deg(call.azimut_viento_deg)[c]) \div 10000
         + SumaFuerzas(c, k + 1)

\* C30: with unique point labels and span names that parse back to two points
\* of the summary, the sum of (Fx, Fy) over the points is the sum over the
\* spans of F * u_viento: each span is counted as its two halves, which is the
\* whole force up to the rounding of one unit (1e-4 kN) per span
C30_ConservacionDeFuerza ==
    (FuerzasRetorna /\ ExtremosEnResumen) =>
        /\ retval.ok
        /\ \A c \in {1, 2} :
             /\ SumaNodos(c, 1) = SumaTramos(c, 1)
             /\ SumaNodos(c, 1) <= SumaFuerzas(c, 1)
             /\ SumaFuerzas(c, 1) - SumaNodos(c, 1) <= Len(call.df_tramos)

\* two loaded spans of a 3-point route, one written with "->", under an
\* oblique wind
C30_Witness ==
    /\ FuerzasRetorna /\ ExtremosEnResumen /\ retval.ok
    /\ Len(call.df_resumen) = 3
    /\ Len(call.df_tramos) = 2
    /\ call.df_tramos[1].Tramo = P1 \o <<"-", ">">> \o P2
    /\ call.df_tramos[2].Tramo = FormatTramo(P2, P3)
    /\ FuerzaDeTramo(1) > 0 /\ FuerzaDeTramo(2) > 0
    /\ call.azimut_viento_deg = 4500
    /\ SumaNodos(1, 1) > 0 /\ SumaNodos(2, 1) > 0

=============================================================================
